---- MODULE Spec2Model ----
(***************************************************************************)
(* convmit: conventional-commit messages from staged changes.             *)
(*                                                                         *)
(* The module models                                                       *)
(*   - the model catalog (src/src/ai.rs): Display, FromStr, cli_name,      *)
(*     provider and the vendor classification;                             *)
(*   - the credential/config resolver (src/src/config.rs);                 *)
(*   - the file filter and the run of main (src/src/main.rs);              *)
(*   - the provider clients (src/src/ai/*.rs): the constructors and what   *)
(*     generate_commit_message makes of the HTTP response.                 *)
(*                                                                         *)
(* Five specifications share the variables:                                *)
(*   SpecCatalog  applies the catalog's pure functions to drawn inputs,    *)
(*   SpecFilter   applies apply_file_filters to drawn inputs,              *)
(*   SpecConfig   is main from the choice of the model to the credential,  *)
(*                from every loaded config and every environment,          *)
(*   SpecProvider is create_client and the provider call, for every model  *)
(*                of the catalog and every response,                       *)
(*   Spec         is one run of main, from Cli::parse to the exit.         *)
(***************************************************************************)
EXTENDS Integers, Sequences, FiniteSets, TLC

VARIABLES
    cat,             \* SpecCatalog: inputs and results of the catalog functions
    flt,             \* SpecFilter: inputs and result of apply_file_filters
    pc,              \* Spec: position of main
    file,            \* Spec: the persisted config file (absent, malformed or a Config)
    cli,             \* Spec: the parsed command line, fields filled as main reads them
    config,          \* Spec: main's `config` value
    env,             \* Spec: the process environment, the credential variables
    model,           \* Spec: main's `model`
    api_key,         \* Spec: main's `api_key`
    staged_files,    \* Spec: main's `staged_files`
    filtered_files,  \* Spec: main's `filtered_files`
    diff,            \* Spec: main's `diff`
    client,          \* Spec: main's `client`
    request,         \* Spec: the HTTP request the provider call sent
    response,        \* Spec: the HTTP response the provider call received
    ed,              \* Spec: the editor step: EDITOR, its parts, how it went
    race,            \* SpecRace: two processes and the config file they share
    commit_message,  \* Spec: main's `commit_message`
    exit,            \* Spec: how the run ended
    log              \* Spec: the outward effects of the run, in order

vars == <<cat, flt, pc, file, cli, config, env, model, api_key, staged_files,
          filtered_files, diff, client, request, response, ed, race,
          commit_message, exit, log>>

runVars == <<pc, file, cli, config, env, model, api_key, staged_files,
             filtered_files, diff, client, request, response, ed, race,
             commit_message, exit, log>>

-----------------------------------------------------------------------------
(* Option and Result values *)

None == "None"

\* Result<T>: Ok(v) and Err(anyhow!(msg))
Ok(v) == [ok |-> TRUE, val |-> v, err |-> ""]

Err(msg) == [ok |-> FALSE, val |-> None, err |-> msg]

Range(s) == {s[i] : i \in DOMAIN s}

\* str::contains
Contains(s, t) ==
    \E i \in 1..(Len(s) - Len(t) + 1) : SubSeq(s, i, i + Len(t) - 1) = t

\* str::starts_with and str::ends_with
starts_with(s, t) == Len(s) >= Len(t) /\ SubSeq(s, 1, Len(t)) = t

ends_with(s, t) == Len(s) >= Len(t) /\ SubSeq(s, Len(s) - Len(t) + 1, Len(s)) = t

\* the lines of a text
RECURSIVE LinesOf(_)
LinesOf(s) ==
    IF \A i \in 1..Len(s) : SubSeq(s, i, i) # "\n" THEN <<s>>
    ELSE LET n == CHOOSE i \in 1..Len(s) :
                      /\ SubSeq(s, i, i) = "\n"
                      /\ \A k \in 1..(i - 1) : SubSeq(s, k, k) # "\n"
         IN  <<SubSeq(s, 1, n - 1)>> \o LinesOf(SubSeq(s, n + 1, Len(s)))

-----------------------------------------------------------------------------
(* The model catalog, src/src/ai.rs *)

\* Model::all_models: the variants of the enum, in the order of the vector
all_models ==
    << "Opus4_1", "Opus4", "Sonnet4", "Sonnet3_7", "Haiku3_5", "Haiku3",
       "GPT5", "GPT5Mini", "GPT5Nano",
       "Gemini2_5Pro", "Gemini2_5Flash", "Gemini2_5FlashLite",
       "MistralMedium31", "MagistralMedium11", "Codestral2508",
       "MistralSmall32", "Ministral8B" >>

Catalog == Range(all_models)

\* config.rs names Model::Haiku4_5 as the built-in fallback model. The variant
\* belongs to a later revision of the enum than ai.rs; config.rs's tests fix
\* it as a Claude model (get_api_key_for_model(Haiku4_5) is the Claude key).
Haiku4_5 == "Haiku4_5"

\* every value of type Model the run can hold
ModelEnum == Catalog \cup {Haiku4_5}

\* impl Display for Model: the wire identifier
to_string(m) ==
    CASE m = "Opus4_1" -> "claude-opus-4-1-20250805"
      [] m = "Opus4" -> "claude-opus-4-20250514"
      [] m = "Sonnet4" -> "claude-sonnet-4-20250514"
      [] m = "Sonnet3_7" -> "claude-3-7-sonnet-20250219"
      [] m = "Haiku3_5" -> "claude-3-5-haiku-20241022"
      [] m = "Haiku3" -> "claude-3-haiku-20240307"
      [] m = "GPT5" -> "gpt-5-2025-08-07"
      [] m = "GPT5Mini" -> "gpt-5-mini-2025-08-07"
      [] m = "GPT5Nano" -> "gpt-5-nano-2025-08-07"
      [] m = "Gemini2_5Pro" -> "gemini-2.5-pro"
      [] m = "Gemini2_5Flash" -> "gemini-2.5-flash"
      [] m = "Gemini2_5FlashLite" -> "gemini-2.5-flash-lite"
      [] m = "MistralMedium31" -> "mistral-medium-2508"
      [] m = "MagistralMedium11" -> "magistral-medium-2507"
      [] m = "Codestral2508" -> "codestral-2508"
      [] m = "MistralSmall32" -> "mistral-small-3.2"
      [] m = "Ministral8B" -> "ministral-8b-2410"
      [] OTHER -> m   \* Haiku4_5: its text is not in the source

\* a from_str that also accepts the wire identifier of Sonnet4
from_str_wire(arg) ==
    CASE arg = "opus-4-1" -> Ok("Opus4_1")
      [] arg = "opus-4" -> Ok("Opus4")
      [] arg = "sonnet-4" -> Ok("Sonnet4")
      [] arg = "claude-sonnet-4-20250514" -> Ok("Sonnet4")
      [] arg = "sonnet-3-7" -> Ok("Sonnet3_7")
      [] arg = "haiku-3-5" -> Ok("Haiku3_5")
      [] arg = "haiku-3" -> Ok("Haiku3")
      [] arg = "gpt-5" -> Ok("GPT5")
      [] arg = "gpt-5-mini" -> Ok("GPT5Mini")
      [] arg = "gpt-5-nano" -> Ok("GPT5Nano")
      [] arg = "gemini-2.5-pro" -> Ok("Gemini2_5Pro")
      [] arg = "gemini-2.5-flash" -> Ok("Gemini2_5Flash")
      [] arg = "gemini-2.5-flash-lite" -> Ok("Gemini2_5FlashLite")
      [] arg = "mistral-medium-31" -> Ok("MistralMedium31")
      [] arg = "magistral-medium-11" -> Ok("MagistralMedium11")
      [] arg = "codestral-2508" -> Ok("Codestral2508")
      [] arg = "mistral-small-32" -> Ok("MistralSmall32")
      [] arg = "ministral-8b" -> Ok("Ministral8B")
      [] OTHER -> Err("Unknown model: " \o arg)

\* impl FromStr for Model
from_str(arg) ==
    CASE arg = "opus-4-1" -> Ok("Opus4_1")
      [] arg = "opus-4" -> Ok("Opus4")
      [] arg = "sonnet-4" -> Ok("Sonnet4")
      [] arg = "sonnet-3-7" -> Ok("Sonnet3_7")
      [] arg = "haiku-3-5" -> Ok("Haiku3_5")
      [] arg = "haiku-3" -> Ok("Haiku3")
      [] arg = "gpt-5" -> Ok("GPT5")
      [] arg = "gpt-5-mini" -> Ok("GPT5Mini")
      [] arg = "gpt-5-nano" -> Ok("GPT5Nano")
      [] arg = "gemini-2.5-pro" -> Ok("Gemini2_5Pro")
      [] arg = "gemini-2.5-flash" -> Ok("Gemini2_5Flash")
      [] arg = "gemini-2.5-flash-lite" -> Ok("Gemini2_5FlashLite")
      [] arg = "mistral-medium-31" -> Ok("MistralMedium31")
      [] arg = "magistral-medium-11" -> Ok("MagistralMedium11")
      [] arg = "codestral-2508" -> Ok("Codestral2508")
      [] arg = "mistral-small-32" -> Ok("MistralSmall32")
      [] arg = "ministral-8b" -> Ok("Ministral8B")
      [] OTHER -> Err("Unknown model: " \o arg)

\* a cli_name that gives MistralSmall32 the text Display gives it
cli_name_display(m) ==
    CASE m = "Opus4_1" -> "opus-4-1"
      [] m = "Opus4" -> "opus-4"
      [] m = "Sonnet4" -> "sonnet-4"
      [] m = "Sonnet3_7" -> "sonnet-3-7"
      [] m = "Haiku3_5" -> "haiku-3-5"
      [] m = "Haiku3" -> "haiku-3"
      [] m = "GPT5" -> "gpt-5"
      [] m = "GPT5Mini" -> "gpt-5-mini"
      [] m = "GPT5Nano" -> "gpt-5-nano"
      [] m = "Gemini2_5Pro" -> "gemini-2.5-pro"
      [] m = "Gemini2_5Flash" -> "gemini-2.5-flash"
      [] m = "Gemini2_5FlashLite" -> "gemini-2.5-flash-lite"
      [] m = "MistralMedium31" -> "mistral-medium-31"
      [] m = "MagistralMedium11" -> "magistral-medium-11"
      [] m = "Codestral2508" -> "codestral-2508"
      [] m = "MistralSmall32" -> "mistral-small-3.2"
      [] m = "Ministral8B" -> "ministral-8b"
      [] OTHER -> m

\* Model::cli_name
cli_name(m) ==
    CASE m = "Opus4_1" -> "opus-4-1"
      [] m = "Opus4" -> "opus-4"
      [] m = "Sonnet4" -> "sonnet-4"
      [] m = "Sonnet3_7" -> "sonnet-3-7"
      [] m = "Haiku3_5" -> "haiku-3-5"
      [] m = "Haiku3" -> "haiku-3"
      [] m = "GPT5" -> "gpt-5"
      [] m = "GPT5Mini" -> "gpt-5-mini"
      [] m = "GPT5Nano" -> "gpt-5-nano"
      [] m = "Gemini2_5Pro" -> "gemini-2.5-pro"
      [] m = "Gemini2_5Flash" -> "gemini-2.5-flash"
      [] m = "Gemini2_5FlashLite" -> "gemini-2.5-flash-lite"
      [] m = "MistralMedium31" -> "mistral-medium-31"
      [] m = "MagistralMedium11" -> "magistral-medium-11"
      [] m = "Codestral2508" -> "codestral-2508"
      [] m = "MistralSmall32" -> "mistral-small-32"
      [] m = "Ministral8B" -> "ministral-8b"
      [] OTHER -> m   \* Haiku4_5: its text is not in the source

\* Model::is_claude; Haiku4_5 by config.rs's tests
is_claude(m) ==
    m \in {"Opus4_1", "Opus4", "Sonnet4", "Sonnet3_7", "Haiku3_5", "Haiku3"}
          \cup {Haiku4_5}

\* Model::is_openai
is_openai(m) == m \in {"GPT5", "GPT5Mini", "GPT5Nano"}

\* Model::is_gemini
is_gemini(m) == m \in {"Gemini2_5Pro", "Gemini2_5Flash", "Gemini2_5FlashLite"}

\* an is_mistral written before Ministral8B joined the enum
is_mistral_stale(m) ==
    m \in {"MistralMedium31", "MagistralMedium11", "Codestral2508",
           "MistralSmall32"}

\* Model::is_mistral
is_mistral(m) ==
    m \in {"MistralMedium31", "MagistralMedium11", "Codestral2508",
           "MistralSmall32", "Ministral8B"}

\* Model::provider
provider(m) ==
    IF is_claude(m) THEN "Claude"
    ELSE IF is_openai(m) THEN "OpenAI"
    ELSE IF is_gemini(m) THEN "Google Gemini"
    ELSE IF is_mistral(m) THEN "Mistral"
    ELSE "Unknown"

-----------------------------------------------------------------------------
(* The credential/config resolver, src/src/config.rs *)

\* the credential fields of Config, in the order of the struct
KeyFields == <<"claude_api_key", "openai_api_key", "gemini_api_key", "mistral_api_key">>

\* the fields of Config, in the order of the struct
ConfigFields ==
    <<"claude_api_key", "openai_api_key", "gemini_api_key", "mistral_api_key",
      "default_model">>

\* the environment variable each getter falls back to
EnvVars == <<"CLAUDE_API_KEY", "OPENAI_API_KEY", "GEMINI_API_KEY", "MISTRAL_API_KEY">>

\* a variable of the environment the run has not read yet
Unread == "unread"

\* impl Default for Config
DefaultConfig ==
    [claude_api_key |-> None, openai_api_key |-> None, gemini_api_key |-> None,
     mistral_api_key |-> None, default_model |-> Haiku4_5]

\* std::env::var(name).ok(): None when the variable is not set
env_var(e, name) == e[name]

\* a getter that asks the environment first
get_claude_api_key_env_first(cfg, e) ==
    IF env_var(e, "CLAUDE_API_KEY") # None THEN env_var(e, "CLAUDE_API_KEY")
    ELSE cfg.claude_api_key

\* Config::get_claude_api_key: Option::or keeps the config value when it is Some
get_claude_api_key(cfg, e) ==
    IF cfg.claude_api_key # None THEN cfg.claude_api_key
    ELSE env_var(e, "CLAUDE_API_KEY")

\* Config::get_openai_api_key
get_openai_api_key(cfg, e) ==
    IF cfg.openai_api_key # None THEN cfg.openai_api_key
    ELSE env_var(e, "OPENAI_API_KEY")

\* Config::get_gemini_api_key
get_gemini_api_key(cfg, e) ==
    IF cfg.gemini_api_key # None THEN cfg.gemini_api_key
    ELSE env_var(e, "GEMINI_API_KEY")

\* Config::get_mistral_api_key
get_mistral_api_key(cfg, e) ==
    IF cfg.mistral_api_key # None THEN cfg.mistral_api_key
    ELSE env_var(e, "MISTRAL_API_KEY")

\* a validate_model_config that looks at the config fields only
validate_model_config_no_env(cfg, e, m) ==
    IF is_claude(m) /\ cfg.claude_api_key = None THEN
        Err("Claude API key required for " \o to_string(m)
            \o ". Set with --set-claude-key or CLAUDE_API_KEY env var")
    ELSE IF is_openai(m) /\ cfg.openai_api_key = None THEN
        Err("OpenAI API key required for " \o to_string(m)
            \o ". Set with --set-openai-key or OPENAI_API_KEY env var")
    ELSE IF is_gemini(m) /\ cfg.gemini_api_key = None THEN
        Err("Gemini API key required for " \o to_string(m)
            \o ". Set with --set-gemini-key or GEMINI_API_KEY env var")
    ELSE IF is_mistral(m) /\ cfg.mistral_api_key = None THEN
        Err("Mistral API key required for " \o to_string(m)
            \o ". Set with --set-mistral-key or MISTRAL_API_KEY env var")
    ELSE Ok(None)

\* a validate_model_config whose Gemini arm carries the OpenAI text
validate_model_config_pasted(cfg, e, m) ==
    IF is_claude(m) /\ get_claude_api_key(cfg, e) = None THEN
        Err("Claude API key required for " \o to_string(m)
            \o ". Set with --set-claude-key or CLAUDE_API_KEY env var")
    ELSE IF is_openai(m) /\ get_openai_api_key(cfg, e) = None THEN
        Err("OpenAI API key required for " \o to_string(m)
            \o ". Set with --set-openai-key or OPENAI_API_KEY env var")
    ELSE IF is_gemini(m) /\ get_gemini_api_key(cfg, e) = None THEN
        Err("Gemini API key required for " \o to_string(m)
            \o ". Set with --set-openai-key or OPENAI_API_KEY env var")
    ELSE IF is_mistral(m) /\ get_mistral_api_key(cfg, e) = None THEN
        Err("Mistral API key required for " \o to_string(m)
            \o ". Set with --set-mistral-key or MISTRAL_API_KEY env var")
    ELSE Ok(None)

\* Config::validate_model_config: the match arms in order, Ok(()) as Ok(None)
validate_model_config(cfg, e, m) ==
    IF is_claude(m) /\ get_claude_api_key(cfg, e) = None THEN
        Err("Claude API key required for " \o to_string(m)
            \o ". Set with --set-claude-key or CLAUDE_API_KEY env var")
    ELSE IF is_openai(m) /\ get_openai_api_key(cfg, e) = None THEN
        Err("OpenAI API key required for " \o to_string(m)
            \o ". Set with --set-openai-key or OPENAI_API_KEY env var")
    ELSE IF is_gemini(m) /\ get_gemini_api_key(cfg, e) = None THEN
        Err("Gemini API key required for " \o to_string(m)
            \o ". Set with --set-gemini-key or GEMINI_API_KEY env var")
    ELSE IF is_mistral(m) /\ get_mistral_api_key(cfg, e) = None THEN
        Err("Mistral API key required for " \o to_string(m)
            \o ". Set with --set-mistral-key or MISTRAL_API_KEY env var")
    ELSE Ok(None)

\* a get_api_key_for_model whose Mistral branch asks for the OpenAI key
get_api_key_for_model_swapped(cfg, e, m) ==
    IF is_claude(m) THEN get_claude_api_key(cfg, e)
    ELSE IF is_openai(m) THEN get_openai_api_key(cfg, e)
    ELSE IF is_gemini(m) THEN get_gemini_api_key(cfg, e)
    ELSE IF is_mistral(m) THEN get_openai_api_key(cfg, e)
    ELSE None

\* Config::get_api_key_for_model
get_api_key_for_model(cfg, e, m) ==
    IF is_claude(m) THEN get_claude_api_key(cfg, e)
    ELSE IF is_openai(m) THEN get_openai_api_key(cfg, e)
    ELSE IF is_gemini(m) THEN get_gemini_api_key(cfg, e)
    ELSE IF is_mistral(m) THEN get_mistral_api_key(cfg, e)
    ELSE None

\* a get_default_model that always answers with the built-in model
get_default_model_fixed(cfg) == Haiku4_5

\* Config::get_default_model
get_default_model(cfg) ==
    IF cfg.default_model # None THEN cfg.default_model ELSE Haiku4_5

\* the environment variables validate_model_config and get_api_key_for_model
\* read for model m: a getter runs only behind its own is_<vendor> test
EnvVarsRead(m) ==
    {EnvVars[i] : i \in {j \in 1..4 :
        \/ j = 1 /\ is_claude(m)
        \/ j = 2 /\ is_openai(m)
        \/ j = 3 /\ is_gemini(m)
        \/ j = 4 /\ is_mistral(m)}}

\* the value a credential variable holds when it is set
EnvKey(name) == "env:" \o name

\* the environments that agree with e on what was read and give a value, set
\* or not set, to the variables in names that were not
EnvAfterRead(e, names) ==
    LET fresh == {n \in names : e[n] = Unread}
    IN  {[n \in Range(EnvVars) |->
             IF n \in set THEN EnvKey(n)
             ELSE IF n \in fresh THEN None
             ELSE e[n]] : set \in SUBSET fresh}

\* toml::to_string_pretty(config): one key = value line per field that is Some
to_toml(cfg) ==
    {<<KeyFields[i], cfg[KeyFields[i]]>> : i \in {j \in 1..4 : cfg[KeyFields[j]] # None}}
        \cup (IF cfg.default_model # None
              THEN {<<"default_model", cfg.default_model>>} ELSE {})

TomlGet(table, key) ==
    IF \E p \in table : p[1] = key
    THEN (CHOOSE p \in table : p[1] = key)[2]
    ELSE None

\* toml::from_str::<Config>: a field with no line is None
from_toml(table) ==
    [claude_api_key |-> TomlGet(table, "claude_api_key"),
     openai_api_key |-> TomlGet(table, "openai_api_key"),
     gemini_api_key |-> TomlGet(table, "gemini_api_key"),
     mistral_api_key |-> TomlGet(table, "mistral_api_key"),
     default_model |-> TomlGet(table, "default_model")]

-----------------------------------------------------------------------------
(* The file filter, src/src/main.rs *)

\* an apply_file_filters that forgets `exclude` when `only` is given
apply_file_filters_only_wins(staged, only, exclude) ==
    LET only_set == Range(only)
        exclude_set == Range(exclude)
        keep(f) == IF only_set = {} THEN f \notin exclude_set ELSE f \in only_set
    IN  SelectSeq(staged, keep)

\* apply_file_filters: the two HashSets, then the filter over staged_files in order
apply_file_filters(staged, only, exclude) ==
    LET only_set == Range(only)
        exclude_set == Range(exclude)
        keep(f) == (only_set = {} \/ f \in only_set) /\ f \notin exclude_set
    IN  SelectSeq(staged, keep)

-----------------------------------------------------------------------------
(* The provider clients, src/src/ai/claude.rs, openai.rs, gemini.rs,       *)
(* mistral.rs: what generate_commit_message makes of the HTTP response     *)

\* JSON values: strings, numbers, objects (key/value pairs in order), arrays
JStr(s) == [t |-> "str", s |-> s, kv |-> <<>>, el |-> <<>>]

JNum(digits) == [t |-> "num", s |-> digits, kv |-> <<>>, el |-> <<>>]

JObj(kv) == [t |-> "obj", s |-> "", kv |-> kv, el |-> <<>>]

JArr(el) == [t |-> "arr", s |-> "", kv |-> <<>>, el |-> el]

\* a body that is no JSON document
NotJson(text) == [t |-> "text", s |-> text, kv |-> <<>>, el |-> <<>>]

\* what serde finds for a key the object does not hold
JMissing == [t |-> "missing", s |-> "", kv |-> <<>>, el |-> <<>>]

\* the value of a key of an object
JGet(v, key) ==
    IF v.t = "obj" /\ \E i \in DOMAIN v.kv : v.kv[i][1] = key
    THEN v.kv[CHOOSE i \in DOMAIN v.kv : v.kv[i][1] = key][2]
    ELSE JMissing

\* a string as it stands inside a JSON document: quotes, backslashes and
\* line ends escaped
RECURSIVE JEscape(_)
JEscape(s) ==
    IF s = "" THEN ""
    ELSE LET c == SubSeq(s, 1, 1)
             e == IF c = "\"" THEN "\\\""
                  ELSE IF c = "\\" THEN "\\\\"
                  ELSE IF c = "\n" THEN "\\n"
                  ELSE c
         IN  e \o JEscape(SubSeq(s, 2, Len(s)))

\* response.text(): the body as the text on the wire
RECURSIVE JText(_), JFields(_), JItems(_)
JText(v) ==
    CASE v.t = "str" -> "\"" \o JEscape(v.s) \o "\""
      [] v.t = "obj" -> "{" \o JFields(v.kv) \o "}"
      [] v.t = "arr" -> "[" \o JItems(v.el) \o "]"
      [] OTHER -> v.s

JFields(kv) ==
    IF kv = <<>> THEN ""
    ELSE "\"" \o kv[1][1] \o "\":" \o JText(kv[1][2])
             \o (IF Len(kv) = 1 THEN "" ELSE "," \o JFields(Tail(kv)))

JItems(el) ==
    IF el = <<>> THEN ""
    ELSE JText(el[1]) \o (IF Len(el) = 1 THEN "" ELSE "," \o JItems(Tail(el)))

\* the characters str::trim removes
Whitespace == {" ", "\t", "\n", "\r"}

RECURSIVE trim_start(_)
trim_start(s) ==
    IF s # "" /\ SubSeq(s, 1, 1) \in Whitespace
    THEN trim_start(SubSeq(s, 2, Len(s)))
    ELSE s

RECURSIVE trim_end(_)
trim_end(s) ==
    IF s # "" /\ SubSeq(s, Len(s), Len(s)) \in Whitespace
    THEN trim_end(SubSeq(s, 1, Len(s) - 1))
    ELSE s

\* a trim that leaves what follows the text
trim_left_only(s) == trim_start(s)

\* str::trim
trim(s) == trim_end(trim_start(s))

\* http::StatusCode: the code and its Display text
Status(code, text) == [code |-> code, text |-> text]

\* StatusCode::is_success
is_success(status) == status.code >= 200 /\ status.code < 300

\* the error body of the Anthropic API: {"type": .., "error": {"type": ..,
\* "message": ..}}
AnthropicError(msg) ==
    JObj(<< <<"type", JStr("error")>>,
            <<"error", JObj(<< <<"type", JStr("invalid_request_error")>>,
                               <<"message", JStr(msg)>> >>)>> >>)

\* the error body {"error": {"message": .., ..}} the OpenAI, Mistral and
\* Gemini APIs answer with
ErrorBody(msg) ==
    JObj(<< <<"error", JObj(<< <<"message", JStr(msg)>>,
                               <<"code", JNum("400")>> >>)>> >>)

\* the one body claude.rs's ErrorResponse accepts: {"type": {"type": ..}}
TypeTypeBody(msg) ==
    JObj(<< <<"type", JObj(<< <<"type", JStr(msg)>> >>)>> >>)

\* the success body of the Anthropic API with the given content texts
ClaudeBody(texts) ==
    JObj(<< <<"id", JStr("msg_1")>>,
            <<"content", JArr([i \in 1..Len(texts) |->
                                  JObj(<< <<"type", JStr("text")>>,
                                          <<"text", JStr(texts[i])>> >>)])>> >>)

\* the success body of a chat-completions API (OpenAI, Mistral) with the
\* given choices
ChatBody(texts) ==
    JObj(<< <<"choices", JArr([i \in 1..Len(texts) |->
                JObj(<< <<"message", JObj(<< <<"role", JStr("assistant")>>,
                                             <<"content", JStr(texts[i])>> >>)>> >>)])>> >>)

\* the success body of the Gemini API: each candidate is the list of the
\* texts of its parts
GeminiBody(cands) ==
    JObj(<< <<"candidates", JArr([i \in 1..Len(cands) |->
                JObj(<< <<"content", JObj(<< <<"parts",
                    JArr([j \in 1..Len(cands[i]) |->
                             JObj(<< <<"text", JStr(cands[i][j])>> >>)])>> >>)>> >>)])>> >>)

\* serde_json::from_str::<ErrorResponse> of claude.rs: both fields are
\* renamed to "type"
claude_ErrorResponse(body) ==
    LET error == JGet(body, "type")
        message == JGet(error, "type")
    IN  IF error.t = "obj" /\ message.t = "str" THEN Ok(message.s) ELSE Err("parse")

\* serde_json::from_str::<ErrorResponse> of openai.rs
openai_ErrorResponse(body) ==
    LET error == JGet(body, "error")
        message == JGet(error, "message")
    IN  IF error.t = "obj" /\ message.t = "str" THEN Ok(message.s) ELSE Err("parse")

\* serde_json::from_str::<ErrorResponse> of mistral.rs
mistral_ErrorResponse(body) ==
    LET error == JGet(body, "error")
        message == JGet(error, "message")
    IN  IF error.t = "obj" /\ message.t = "str" THEN Ok(message.s) ELSE Err("parse")

\* response.json::<ClaudeResponse>(): the texts of `content`
ClaudeResponse(body) ==
    LET content == JGet(body, "content")
        fits(c) == c.t = "obj" /\ JGet(c, "text").t = "str" /\ JGet(c, "type").t = "str"
    IN  IF content.t = "arr" /\ \A i \in DOMAIN content.el : fits(content.el[i])
        THEN Ok([i \in DOMAIN content.el |-> JGet(content.el[i], "text").s])
        ELSE Err("error decoding response body")

\* response.json::<OpenAIResponse>() and ::<MistralResponse>(): the
\* message.content of `choices`
ChatResponse(body) ==
    LET choices == JGet(body, "choices")
        fits(c) == /\ c.t = "obj"
                   /\ JGet(c, "message").t = "obj"
                   /\ JGet(JGet(c, "message"), "content").t = "str"
    IN  IF choices.t = "arr" /\ \A i \in DOMAIN choices.el : fits(choices.el[i])
        THEN Ok([i \in DOMAIN choices.el |->
                    JGet(JGet(choices.el[i], "message"), "content").s])
        ELSE Err("error decoding response body")

\* response.json::<GeminiResponse>(): for each candidate the texts of
\* content.parts
GeminiResponse(body) ==
    LET candidates == JGet(body, "candidates")
        parts(c) == JGet(JGet(c, "content"), "parts")
        fits(c) == /\ c.t = "obj"
                   /\ JGet(c, "content").t = "obj"
                   /\ parts(c).t = "arr"
                   /\ \A j \in DOMAIN parts(c).el :
                         /\ parts(c).el[j].t = "obj"
                         /\ JGet(parts(c).el[j], "text").t = "str"
    IN  IF candidates.t = "arr" /\ \A i \in DOMAIN candidates.el : fits(candidates.el[i])
        THEN Ok([i \in DOMAIN candidates.el |->
                    [j \in DOMAIN parts(candidates.el[i]).el |->
                        JGet(parts(candidates.el[i]).el[j], "text").s]])
        ELSE Err("error decoding response body")

\* the fallback of the error path: the status and the raw body
http_error(resp) ==
    Err("HTTP error " \o resp.status.text \o ": " \o JText(resp.body))

\* claude.rs lines 85-104
claude_generate_commit_message(resp) ==
    IF ~is_success(resp.status)
    THEN LET error_response == claude_ErrorResponse(resp.body)
         IN  IF error_response.ok
             THEN Err("Claude API error: " \o error_response.val)
             ELSE http_error(resp)
    ELSE LET claude_response == ClaudeResponse(resp.body)
         IN  IF ~claude_response.ok THEN Err(claude_response.err)
             ELSE IF claude_response.val # <<>>
                  THEN Ok(trim(claude_response.val[1]))
                  ELSE Err("No response from Claude")

\* openai.rs lines 81-100
openai_generate_commit_message(resp) ==
    IF ~is_success(resp.status)
    THEN LET error_response == openai_ErrorResponse(resp.body)
         IN  IF error_response.ok
             THEN Err("Claude API error: " \o error_response.val)
             ELSE http_error(resp)
    ELSE LET openai_response == ChatResponse(resp.body)
         IN  IF ~openai_response.ok THEN Err(openai_response.err)
             ELSE IF openai_response.val # <<>>
                  THEN Ok(trim(openai_response.val[1]))
                  ELSE Err("No response from Claude")

\* gemini.rs lines 89-108
gemini_generate_commit_message(resp) ==
    IF ~is_success(resp.status)
    THEN http_error(resp)
    ELSE LET gemini_response == GeminiResponse(resp.body)
         IN  IF ~gemini_response.ok THEN Err(gemini_response.err)
             ELSE IF gemini_response.val = <<>>
                  THEN Err("No candidates in Gemini response")
                  ELSE IF gemini_response.val[1] # <<>>
                       THEN Ok(trim(gemini_response.val[1][1]))
                       ELSE Err("No response from Claude")

\* mistral.rs lines 85-104
mistral_generate_commit_message(resp) ==
    IF ~is_success(resp.status)
    THEN LET error_response == mistral_ErrorResponse(resp.body)
         IN  IF error_response.ok
             THEN Err("Mistral API error: " \o error_response.val)
             ELSE http_error(resp)
    ELSE LET mistral_response == ChatResponse(resp.body)
         IN  IF ~mistral_response.ok THEN Err(mistral_response.err)
             ELSE IF mistral_response.val # <<>>
                  THEN Ok(trim(mistral_response.val[1]))
                  ELSE Err("No response from Mistral")

\* client.generate_commit_message(..), by the client main holds
generate_commit_message(c, resp) ==
    CASE c.vendor = "claude" -> claude_generate_commit_message(resp)
      [] c.vendor = "openai" -> openai_generate_commit_message(resp)
      [] c.vendor = "gemini" -> gemini_generate_commit_message(resp)
      [] c.vendor = "mistral" -> mistral_generate_commit_message(resp)

\* the messages of the vendors' error bodies
ErrorMessages == {"invalid x-api-key", "model \"x\" not found"}

\* the candidate texts of a success body
CandidateLists == {<<>>, <<"fix(a): x">>, <<" fix(a): x\n", "feat: z">>}

\* the candidates of a Gemini success body, each the texts of its parts
GeminiCandidateLists ==
    {<<>>, << <<"fix(a): x">> >>, << <<" fix(a): x\n", "more">>, <<"feat: z">> >>,
     << <<>> >>, << <<>>, <<"feat: z">> >>}

Statuses ==
    {Status(200, "200 OK"), Status(400, "400 Bad Request"),
     Status(503, "503 Service Unavailable")}

Bodies ==
    {AnthropicError(m) : m \in ErrorMessages} \cup {ErrorBody(m) : m \in ErrorMessages}
        \cup {TypeTypeBody("overloaded_error"), NotJson("<html>Bad Gateway</html>")}
        \cup {ClaudeBody(t) : t \in CandidateLists}
        \cup {ChatBody(t) : t \in CandidateLists}
        \cup {GeminiBody(c) : c \in GeminiCandidateLists}

\* every response a client is checked against
AllResponses == {[status |-> s, body |-> b] : s \in Statuses, b \in Bodies}

\* the error body of the API of a vendor
VendorError(v, msg) == IF v = "claude" THEN AnthropicError(msg) ELSE ErrorBody(msg)

\* the success body of the API of a vendor with one text per candidate
VendorBody(v, texts) ==
    CASE v = "claude" -> ClaudeBody(texts)
      [] v = "gemini" -> GeminiBody([i \in 1..Len(texts) |-> <<texts[i]>>])
      [] OTHER -> ChatBody(texts)

\* the responses a run of main meets
RunResponses(v) ==
    {[status |-> Status(200, "200 OK"), body |-> VendorBody(v, <<"fix(a): x\n">>)],
     [status |-> Status(200, "200 OK"), body |-> VendorBody(v, <<>>)],
     [status |-> Status(400, "400 Bad Request"),
      body |-> VendorError(v, "invalid x-api-key")]}

\* BASE_PROMPT, src/src/ai.rs lines 10-48
BASE_PROMPT ==
    "Generate a conventional commit message based on the staged files and git diff below.\n"
    \o "\n"
    \o "FORMAT: type(scope): description\n"
    \o "- Use lowercase for type and description\n"
    \o "- Scope is optional but recommended (file/module/feature affected)\n"
    \o "- Description should be 50-72 characters, imperative mood\n"
    \o "- Add '!' after type for breaking changes\n"
    \o "\n"
    \o "COMMIT TYPES:\n"
    \o "- feat: new feature or enhancement\n"
    \o "- fix: bug fix or error correction\n"
    \o "- docs: documentation changes only\n"
    \o "- style: formatting, whitespace (no logic changes)\n"
    \o "- refactor: code restructuring (no feature/bug changes)\n"
    \o "- test: adding or updating tests\n"
    \o "- chore: maintenance, deps, config, build\n"
    \o "- perf: performance improvements\n"
    \o "- ci: CI/CD pipeline changes\n"
    \o "\n"
    \o "SCOPE GUIDELINES:\n"
    \o "- Use filename/module for single file changes\n"
    \o "- Use feature name for multi-file features\n"
    \o "- Use 'readme' for README changes\n"
    \o "- Omit scope for broad changes\n"
    \o "\n"
    \o "EXAMPLES:\n"
    \o "- feat(auth): add OAuth2 login support\n"
    \o "- fix(parser): handle empty input correctly\n"
    \o "- docs(readme): update installation instructions\n"
    \o "- refactor(claude.rs): implement ToString for Model enum\n"
    \o "- style: format code with rustfmt\n"
    \o "- chore(deps): update reqwest to 0.11\n"
    \o "\n"
    \o "INSTRUCTIONS:\n"
    \o "- Analyze the changes to determine the most appropriate type\n"
    \o "- Look for breaking changes (API changes, removed features)\n"
    \o "- Focus on the 'why' not the 'what' in the description\n"
    \o "- Return ONLY the commit message, no explanations\n"

\* [String]::join
RECURSIVE join(_, _)
join(strs, sep) ==
    IF strs = <<>> THEN ""
    ELSE IF Len(strs) = 1 THEN strs[1]
    ELSE strs[1] \o sep \o join(Tail(strs), sep)

\* a build_prompt that lists the files in reverse order
build_prompt_reversed(files, diff_text) ==
    BASE_PROMPT \o "\n\n Staged files:\n\n "
        \o join([i \in 1..Len(files) |-> files[Len(files) + 1 - i]], "\n")
        \o "\n\n Diff:\n\n " \o diff_text

\* build_prompt, src/src/ai.rs lines 50-57
build_prompt(files, diff_text) ==
    BASE_PROMPT \o "\n\n Staged files:\n\n " \o join(files, "\n")
        \o "\n\n Diff:\n\n " \o diff_text

\* SYSTEM_PROMPT, the fixed system instructions the Claude and Gemini clients
\* import from crate::ai
SYSTEM_PROMPT == "Generate a conventional commit message based on the staged files and git diff."

\* build_user_prompt, which the Claude and Gemini clients import from
\* crate::ai: the file list, one path per line in input order, and the diff
build_user_prompt(files, diff_text) ==
    "Staged files:\n" \o join(files, "\n") \o "\n\nDiff:\n" \o diff_text

\* Model::to_api_str, the wire identifier of the model
to_api_str(m) == to_string(m)

\* an HTTP request: the URL, the headers in order and the JSON body
Request(url, headers, body) == [url |-> url, headers |-> headers, body |-> body]

\* no request built
NoRequest == Request("", <<>>, JObj(<<>>))

\* messages: vec![Message { role: "user", content }]
UserMessages(content) ==
    JArr(<<JObj(<< <<"role", JStr("user")>>, <<"content", JStr(content)>> >>)>>)

\* claude.rs lines 64-82
claude_request(c, files, diff_text) ==
    Request("https://api.anthropic.com/v1/messages",
            << <<"content-type", "application/json">>,
               <<"anthropic-version", "2023-06-01">>,
               <<"x-api-key", c.api_key>> >>,
            JObj(<< <<"model", JStr(to_api_str(c.model))>>,
                    <<"max_tokens", JNum("1024")>>,
                    <<"system", JStr(SYSTEM_PROMPT)>>,
                    <<"messages", UserMessages(build_user_prompt(files, diff_text))>> >>))

\* an openai request that names the model by its CLI identifier
openai_request_cli_name(c, files, diff_text) ==
    Request("https://api.openai.com/v1/chat/completions",
            << <<"content-type", "application/json">>,
               <<"authorization", "Bearer " \o c.api_key>> >>,
            JObj(<< <<"model", JStr(cli_name(c.model))>>,
                    <<"messages", UserMessages(build_prompt(files, diff_text))>> >>))

\* openai.rs lines 63-77
openai_request(c, files, diff_text) ==
    Request("https://api.openai.com/v1/chat/completions",
            << <<"content-type", "application/json">>,
               <<"authorization", "Bearer " \o c.api_key>> >>,
            JObj(<< <<"model", JStr(to_string(c.model))>>,
                    <<"messages", UserMessages(build_prompt(files, diff_text))>> >>))

\* gemini.rs lines 65-85
gemini_request(c, files, diff_text) ==
    Request("https://generativelanguage.googleapis.com/v1beta/models/"
                \o to_api_str(c.model) \o ":generateContent",
            << <<"content-type", "application/json">>,
               <<"x-goog-api-key", c.api_key>> >>,
            JObj(<< <<"system_instruction",
                      JArr(<<JObj(<< <<"parts",
                          JArr(<<JObj(<< <<"text", JStr(SYSTEM_PROMPT)>> >>)>>)>> >>)>>)>>,
                    <<"contents",
                      JArr(<<JObj(<< <<"parts",
                          JArr(<<JObj(<< <<"text",
                              JStr(build_user_prompt(files, diff_text))>> >>)>>)>> >>)>>)>> >>))

\* mistral.rs lines 64-81
mistral_request(c, files, diff_text) ==
    Request("https://api.mistral.ai/v1/chat/completions",
            << <<"Content-Type", "application/json">>,
               <<"Accept", "application/json">>,
               <<"Authorization", "Bearer " \o c.api_key>> >>,
            JObj(<< <<"model", JStr(to_string(c.model))>>,
                    <<"messages", UserMessages(build_prompt(files, diff_text))>>,
                    <<"max_tokens", JNum("1024")>>,
                    <<"temperature", JNum("0.3")>> >>))

\* the request client.generate_commit_message(files, diff) sends
build_request(c, files, diff_text) ==
    CASE c.vendor = "claude" -> claude_request(c, files, diff_text)
      [] c.vendor = "openai" -> openai_request(c, files, diff_text)
      [] c.vendor = "gemini" -> gemini_request(c, files, diff_text)
      [] c.vendor = "mistral" -> mistral_request(c, files, diff_text)

\* no response received
NoResponse == [status |-> Status(0, ""), body |-> NotJson("")]

\* main's `client` before create_client
NoClient == [vendor |-> None, api_key |-> None, model |-> None, panic |-> ""]

\* a failed assert! or a panic! where a client was to be made
Panicked(key, m, msg) == [vendor |-> None, api_key |-> key, model |-> m, panic |-> msg]

\* claude::Client::new: assert!(model.is_claude(), ..)
claude_Client_new(key, m) ==
    IF is_claude(m)
    THEN [vendor |-> "claude", api_key |-> key, model |-> m, panic |-> ""]
    ELSE Panicked(key, m, "Model must be a Claude model")

\* openai::Client::new: assert!(model.is_openai(), ..)
openai_Client_new(key, m) ==
    IF is_openai(m)
    THEN [vendor |-> "openai", api_key |-> key, model |-> m, panic |-> ""]
    ELSE Panicked(key, m, "Model must be an OpenAI model")

\* gemini::Client::new: assert!(model.is_gemini(), ..)
gemini_Client_new(key, m) ==
    IF is_gemini(m)
    THEN [vendor |-> "gemini", api_key |-> key, model |-> m, panic |-> ""]
    ELSE Panicked(key, m, "Model must be a Gemini model")

\* mistral::Client::new: assert!(model.is_mistral(), ..)
mistral_Client_new(key, m) ==
    IF is_mistral(m)
    THEN [vendor |-> "mistral", api_key |-> key, model |-> m, panic |-> ""]
    ELSE Panicked(key, m, "Model must be a Mistral model")

-----------------------------------------------------------------------------
(* SpecCatalog: the catalog functions applied to drawn inputs *)

\* the strings handed to from_str: the CLI identifiers, the wire identifiers,
\* the variant names and strings near them
ArgStrings ==
    {cli_name(m) : m \in Catalog} \cup {to_string(m) : m \in Catalog}
        \cup Catalog
        \cup {"", "invalid-model", "SONNET-4", "sonnet-4 ", "sonnet4",
              "haiku-4-5", "gpt-5-", "Unknown model: opus-4"}

NoResult == [ok |-> FALSE, val |-> None, err |-> "not run"]

\* no process runs against the shared file
RaceIdle == [disk |-> [exists |-> FALSE, text |-> ""], proc |-> <<>>,
             last |-> [p |-> 0, content |-> ""]]

\* the editor step before it runs
EdIdle == [EDITOR |-> Unread, parsed |-> [ok |-> FALSE, val |-> <<>>, err |-> "not run"],
           status |-> "not run"]

NoFlags == [claude |-> FALSE, openai |-> FALSE, gemini |-> FALSE, mistral |-> FALSE]

CatIdle == [pc |-> "idle", arg |-> "", model |-> None, parsed |-> NoResult,
            name |-> "", reparsed |-> NoResult, flags |-> NoFlags, prov |-> ""]

FltIdle == [pc |-> "idle", staged |-> <<>>, only |-> <<>>, exclude |-> <<>>,
            out |-> <<>>]

\* the run's variables while another specification is checked
RunIdle ==
    /\ pc = "idle"
    /\ file = [exists |-> FALSE, valid |-> TRUE, table |-> {}]
    /\ cli = [set_claude_key |-> None, set_openai_key |-> None,
              set_gemini_key |-> None, set_mistral_key |-> None,
              set_default_model |-> None, list_models |-> FALSE,
              model |-> None, only |-> <<>>, exclude |-> <<>>,
              edit |-> FALSE, no_commit |-> FALSE, read |-> {}]
    /\ config = [claude_api_key |-> None, openai_api_key |-> None,
                 gemini_api_key |-> None, mistral_api_key |-> None,
                 default_model |-> None]
    /\ env = [n \in Range(EnvVars) |-> Unread]
    /\ model = None
    /\ api_key = None
    /\ staged_files = <<>>
    /\ filtered_files = <<>>
    /\ diff = None
    /\ client = NoClient
    /\ request = NoRequest
    /\ race = RaceIdle
    /\ ed = EdIdle
    /\ response = NoResponse
    /\ commit_message = None
    /\ exit = [status |-> "running", at |-> "", msg |-> ""]
    /\ log = <<>>

InitCatalog ==
    /\ cat \in {[CatIdle EXCEPT !.pc = "init", !.arg = a, !.model = m] :
                    a \in ArgStrings, m \in Catalog}
    /\ flt = FltIdle
    /\ RunIdle

\* Model::from_str(arg)
CatParse ==
    /\ cat.pc = "init"
    /\ cat' = [cat EXCEPT !.pc = "parsed", !.parsed = from_str(cat.arg)]
    /\ UNCHANGED <<flt, runVars>>

\* Model::from_str(model.cli_name()), the body of test_cli_name_matches_from_str
CatRoundTrip ==
    /\ cat.pc = "parsed"
    /\ cat' = [cat EXCEPT !.pc = "named",
                          !.name = cli_name(cat.model),
                          !.reparsed = from_str(cli_name(cat.model))]
    /\ UNCHANGED <<flt, runVars>>

\* model.is_claude(), is_openai(), is_gemini(), is_mistral() and model.provider()
CatClassify ==
    /\ cat.pc = "named"
    /\ cat' = [cat EXCEPT !.pc = "classified",
                          !.flags = [claude |-> is_claude(cat.model),
                                     openai |-> is_openai(cat.model),
                                     gemini |-> is_gemini(cat.model),
                                     mistral |-> is_mistral(cat.model)],
                          !.prov = provider(cat.model)]
    /\ UNCHANGED <<flt, runVars>>

NextCatalog == CatParse \/ CatRoundTrip \/ CatClassify

SpecCatalog == InitCatalog /\ [][NextCatalog]_vars

-----------------------------------------------------------------------------
(* SpecFilter: apply_file_filters applied to drawn inputs *)

\* the longest staged list drawn
MaxStaged == 3

\* the longest --only and --exclude list drawn
MaxFilter == 2

\* the paths that can be staged
StagedNames == {"A", "B", "C"}

\* the paths --only and --exclude can name: the staged ones and one that is not
FilterNames == StagedNames \cup {"D"}

SeqsUpTo(S, n) == UNION {[1..k -> S] : k \in 0..n}

\* git lists a staged path once
NoDuplicates(s) == \A i, j \in DOMAIN s : i # j => s[i] # s[j]

StagedLists(n) == {s \in SeqsUpTo(StagedNames, n) : NoDuplicates(s)}

InitFilter ==
    /\ cat = CatIdle
    /\ flt \in {[FltIdle EXCEPT !.pc = "init", !.staged = s, !.only = o, !.exclude = x] :
                    s \in StagedLists(MaxStaged),
                    o \in SeqsUpTo(FilterNames, MaxFilter),
                    x \in SeqsUpTo(FilterNames, MaxFilter)}
    /\ RunIdle

\* apply_file_filters(staged_files, &cli.only, &cli.exclude)
FltApply ==
    /\ flt.pc = "init"
    /\ flt' = [flt EXCEPT !.pc = "filtered",
                          !.out = apply_file_filters(flt.staged, flt.only, flt.exclude)]
    /\ UNCHANGED <<cat, runVars>>

NextFilter == FltApply

SpecFilter == InitFilter /\ [][NextFilter]_vars

-----------------------------------------------------------------------------
(* Spec: one run of main, src/src/main.rs *)

Running == [status |-> "running", at |-> "", msg |-> ""]

\* main returns Ok(()): exit status 0
ExitOk(at) == [status |-> "ok", at |-> at, msg |-> ""]

\* main returns Err(e): the message is reported and the exit status is not 0
ExitErr(at, msg) == [status |-> "err", at |-> at, msg |-> msg]

\* a panic ends the process with a failure status
ExitPanic(at, msg) == [status |-> "panic", at |-> at, msg |-> msg]

Event(op, arg) == [op |-> op, arg |-> arg]

NoFile == [exists |-> FALSE, valid |-> TRUE, table |-> {}]

\* a config file toml::from_str::<Config> rejects
Malformed == [exists |-> TRUE, valid |-> FALSE, table |-> {}]

\* the file fs::write leaves after Config::save of cfg
Saved(cfg) == [exists |-> TRUE, valid |-> TRUE, table |-> to_toml(cfg)]

\* the value a credential field holds when it was persisted earlier
CfgKey(field) == "cfg:" \o field

\* every Config with the given choice of default models
Configs(defaults) ==
    {[claude_api_key |-> IF 1 \in set THEN CfgKey(KeyFields[1]) ELSE None,
      openai_api_key |-> IF 2 \in set THEN CfgKey(KeyFields[2]) ELSE None,
      gemini_api_key |-> IF 3 \in set THEN CfgKey(KeyFields[3]) ELSE None,
      mistral_api_key |-> IF 4 \in set THEN CfgKey(KeyFields[4]) ELSE None,
      default_model |-> d] : set \in SUBSET (1..4), d \in defaults}

\* the config files a run starts from
RunFiles ==
    {NoFile, Malformed} \cup {Saved(c) : c \in Configs({None, "GPT5", "MistralSmall32"})}

\* the --set-* and --list-models flags of a run; a flag not given is None
RunClis ==
    {[set_claude_key |-> a, set_openai_key |-> b, set_gemini_key |-> c,
      set_mistral_key |-> d, set_default_model |-> m, list_models |-> l,
      model |-> None, only |-> <<>>, exclude |-> <<>>,
      edit |-> FALSE, no_commit |-> FALSE, read |-> {}] :
        a \in {None, "new-claude-key"}, b \in {None, "new-openai-key"},
        c \in {None, "new-gemini-key"}, d \in {None, "new-mistral-key"},
        m \in {None, "Sonnet4", "Gemini2_5Pro"}, l \in BOOLEAN}

\* the values of --model: not given, or one model of each vendor
CliModels == {None, "Sonnet4", "GPT5Nano", "Gemini2_5Pro", "Ministral8B"}

\* the answers of `git diff --cached --name-only`
RunStaged == {<<>>, <<"a.rs">>, <<"a.rs", "b.rs">>}

\* the values of --only and --exclude, as <<only, exclude>>
RunFilters ==
    {<< <<>>, <<>> >>, << <<"a.rs">>, <<>> >>, << <<>>, <<"a.rs">> >>,
     << <<"c.rs">>, <<>> >>, << <<"a.rs", "b.rs">>, <<"b.rs">> >>}

Init ==
    /\ cat = CatIdle
    /\ flt = FltIdle
    /\ pc = "load"
    /\ file \in RunFiles
    /\ cli \in RunClis
    /\ config = [claude_api_key |-> None, openai_api_key |-> None,
                 gemini_api_key |-> None, mistral_api_key |-> None,
                 default_model |-> None]
    /\ env = [n \in Range(EnvVars) |-> Unread]
    /\ model = None
    /\ api_key = None
    /\ staged_files = <<>>
    /\ filtered_files = <<>>
    /\ diff = None
    /\ client = NoClient
    /\ request = NoRequest
    /\ race = RaceIdle
    /\ ed = EdIdle
    /\ response = NoResponse
    /\ commit_message = None
    /\ exit = Running
    /\ log = <<>>

\* the run ends: main returns or panics
End(e) ==
    /\ pc' = "done"
    /\ exit' = e

\* a Config::load that returns the default config without writing the file
Load_no_create ==
    /\ pc = "load"
    /\ UNCHANGED <<cat, flt, race, ed, request, response, cli, env, model, api_key, staged_files,
                   filtered_files, diff, client, commit_message>>
    /\ \/ /\ file.exists /\ file.valid
          /\ config' = from_toml(file.table)
          /\ pc' = "flags"
          /\ UNCHANGED <<file, exit, log>>
       \/ /\ file.exists /\ ~file.valid
          /\ End(ExitErr("load", "malformed config file"))
          /\ UNCHANGED <<file, config, log>>
       \/ /\ ~file.exists
          /\ config' = DefaultConfig
          /\ pc' = "flags"
          /\ UNCHANGED <<file, exit, log>>
       \/ /\ End(ExitErr("load", "io error"))
          /\ UNCHANGED <<file, config, log>>

\* a Config::load that takes the default config when the file does not parse
Load_tolerant ==
    /\ pc = "load"
    /\ UNCHANGED <<cat, flt, race, ed, request, response, cli, env, model, api_key, staged_files,
                   filtered_files, diff, client, commit_message>>
    /\ \/ /\ file.exists /\ file.valid
          /\ config' = from_toml(file.table)
          /\ pc' = "flags"
          /\ UNCHANGED <<file, exit, log>>
       \/ /\ file.exists /\ ~file.valid
          /\ config' = DefaultConfig
          /\ pc' = "flags"
          /\ UNCHANGED <<file, exit, log>>
       \/ /\ ~file.exists
          /\ config' = DefaultConfig
          /\ file' = Saved(DefaultConfig)
          /\ log' = Append(log, Event("save", "config.toml"))
          /\ pc' = "flags"
          /\ UNCHANGED exit
       \/ /\ End(ExitErr("load", "io error"))
          /\ UNCHANGED <<file, config, log>>

\* Config::load, main.rs line 20: an existing file is parsed, a missing one
\* is created from Config::default(); config_path, the read, the parse and the
\* write can each fail
Load ==
    /\ pc = "load"
    /\ UNCHANGED <<cat, flt, race, ed, request, response, cli, env, model, api_key, staged_files, filtered_files,
                   diff, client, commit_message>>
    /\ \/ /\ file.exists /\ file.valid
          /\ config' = from_toml(file.table)
          /\ pc' = "flags"
          /\ UNCHANGED <<file, exit, log>>
       \/ /\ file.exists /\ ~file.valid
          /\ End(ExitErr("load", "malformed config file"))
          /\ UNCHANGED <<file, config, log>>
       \/ /\ ~file.exists
          /\ config' = DefaultConfig
          /\ file' = Saved(DefaultConfig)
          /\ log' = Append(log, Event("save", "config.toml"))
          /\ pc' = "flags"
          /\ UNCHANGED exit
       \/ /\ End(ExitErr("load", "io error"))
          /\ UNCHANGED <<file, config, log>>

\* Config::set_<vendor>_api_key / set_default_model followed by main's println
\* and return: the field is assigned, the whole config is written, and a
\* failed write is the run's error
SetAndSave(newConfig, text) ==
    /\ pc = "flags"
    /\ config' = newConfig
    /\ UNCHANGED <<cat, flt, race, ed, request, response, cli, env, model, api_key, staged_files, filtered_files,
                   diff, client, commit_message>>
    /\ \/ /\ file' = Saved(newConfig)
          /\ log' = log \o <<Event("save", "config.toml"), Event("print", text)>>
          /\ End(ExitOk("set"))
       \/ /\ End(ExitErr("set", "io error"))
          /\ UNCHANGED <<file, log>>

\* main.rs lines 22-26
SetClaudeKey ==
    /\ cli.set_claude_key # None
    /\ SetAndSave([config EXCEPT !.claude_api_key = cli.set_claude_key],
                  "Claude API key saved to config")

\* a set_openai_api_key that assigns the Claude field
SetOpenaiKey_pasted ==
    /\ cli.set_claude_key = None
    /\ cli.set_openai_key # None
    /\ SetAndSave([config EXCEPT !.claude_api_key = cli.set_openai_key],
                  "OpenAI API key saved to config")

\* main.rs lines 28-32
SetOpenaiKey ==
    /\ cli.set_claude_key = None
    /\ cli.set_openai_key # None
    /\ SetAndSave([config EXCEPT !.openai_api_key = cli.set_openai_key],
                  "OpenAI API key saved to config")

\* a --set-gemini-key block that runs whatever flags stand before it
SetGeminiKey_any_order ==
    /\ cli.set_gemini_key # None
    /\ SetAndSave([config EXCEPT !.gemini_api_key = cli.set_gemini_key],
                  "Gemini API key saved to config")

\* main.rs lines 34-38
SetGeminiKey ==
    /\ cli.set_claude_key = None /\ cli.set_openai_key = None
    /\ cli.set_gemini_key # None
    /\ SetAndSave([config EXCEPT !.gemini_api_key = cli.set_gemini_key],
                  "Gemini API key saved to config")

\* main.rs lines 40-44
SetMistralKey ==
    /\ cli.set_claude_key = None /\ cli.set_openai_key = None
    /\ cli.set_gemini_key = None
    /\ cli.set_mistral_key # None
    /\ SetAndSave([config EXCEPT !.mistral_api_key = cli.set_mistral_key],
                  "Mistral API key saved to config")

NoKeyFlag ==
    /\ cli.set_claude_key = None /\ cli.set_openai_key = None
    /\ cli.set_gemini_key = None /\ cli.set_mistral_key = None

\* main.rs lines 46-53
SetDefaultModel ==
    /\ NoKeyFlag
    /\ cli.set_default_model # None
    /\ SetAndSave([config EXCEPT !.default_model = cli.set_default_model],
                  "Default model set to " \o to_string(cli.set_default_model)
                      \o " in config")

\* the keys of models_by_provider in the order a BTreeMap iterates them
ProviderOrder == <<"Claude", "Google Gemini", "Mistral", "OpenAI", "Unknown">>

\* the lines --list-models prints under one provider
ProviderLines(p) ==
    LET group == SelectSeq(all_models, LAMBDA m : provider(m) = p)
    IN  IF group = <<>> THEN <<>>
        ELSE <<Event("print", p)>>
                 \o [k \in 1..Len(group) |-> Event("print", to_string(group[k]))]

\* main.rs lines 55-77
ListModels ==
    /\ pc = "flags"
    /\ NoKeyFlag /\ cli.set_default_model = None
    /\ cli.list_models
    /\ log' = log \o <<Event("print", "Available models:")>>
                  \o ProviderLines(ProviderOrder[1]) \o ProviderLines(ProviderOrder[2])
                  \o ProviderLines(ProviderOrder[3]) \o ProviderLines(ProviderOrder[4])
                  \o ProviderLines(ProviderOrder[5])
    /\ End(ExitOk("list"))
    /\ UNCHANGED <<cat, flt, race, ed, request, response, file, cli, config, env, model, api_key, staged_files,
                   filtered_files, diff, client, commit_message>>

\* a ResolveModel after which main reads the staged files at once
ResolveModel_unvalidated ==
    /\ pc = "flags"
    /\ NoKeyFlag /\ cli.set_default_model = None
    /\ ~cli.list_models
    /\ \E m \in CliModels :
          /\ cli' = [cli EXCEPT !.model = m, !.read = @ \cup {"model"}]
          /\ model' = IF m # None THEN m ELSE get_default_model(config)
    /\ pc' = "staged"
    /\ UNCHANGED <<cat, flt, race, ed, request, response, file, config, env, api_key, staged_files,
                   filtered_files, diff, client, commit_message, exit, log>>

\* a ResolveModel that --list-models does not keep the run from reaching
ResolveModel_after_list ==
    /\ pc = "flags"
    /\ NoKeyFlag /\ cli.set_default_model = None
    /\ \E m \in CliModels :
          /\ cli' = [cli EXCEPT !.model = m, !.read = @ \cup {"model"}]
          /\ model' = IF m # None THEN m ELSE get_default_model(config)
    /\ pc' = "validate"
    /\ UNCHANGED <<cat, flt, race, ed, request, response, file, config, env, api_key, staged_files, filtered_files,
                   diff, client, commit_message, exit, log>>

\* main.rs line 79: cli.model.unwrap_or(config.get_default_model())
ResolveModel ==
    /\ pc = "flags"
    /\ NoKeyFlag /\ cli.set_default_model = None
    /\ ~cli.list_models
    /\ \E m \in CliModels :
          /\ cli' = [cli EXCEPT !.model = m, !.read = @ \cup {"model"}]
          /\ model' = IF m # None THEN m ELSE get_default_model(config)
    /\ pc' = "validate"
    /\ UNCHANGED <<cat, flt, race, ed, request, response, file, config, env, api_key, staged_files, filtered_files,
                   diff, client, commit_message, exit, log>>

\* main.rs line 82: config.validate_model_config(&model)?
Validate ==
    /\ pc = "validate"
    /\ \E e \in EnvAfterRead(env, EnvVarsRead(model)) :
          /\ env' = e
          /\ LET r == validate_model_config(config, e, model)
             IN  IF r.ok
                 THEN pc' = "get_key" /\ UNCHANGED exit
                 ELSE End(ExitErr("validate", r.err))
    /\ UNCHANGED <<cat, flt, race, ed, request, response, file, cli, config, model, api_key, staged_files,
                   filtered_files, diff, client, commit_message, log>>

\* main.rs lines 85-87: get_api_key_for_model(&model).ok_or(..)?
GetApiKey ==
    /\ pc = "get_key"
    /\ \E e \in EnvAfterRead(env, EnvVarsRead(model)) :
          /\ env' = e
          /\ LET k == get_api_key_for_model(config, e, model)
             IN  IF k # None
                 THEN api_key' = k /\ pc' = "staged" /\ UNCHANGED exit
                 ELSE /\ End(ExitErr("get_key",
                                     "No API key found for model " \o to_string(model)))
                      /\ UNCHANGED api_key
    /\ UNCHANGED <<cat, flt, race, ed, request, response, file, cli, config, model, staged_files, filtered_files,
                   diff, client, commit_message, log>>

\* a GetStagedFiles without the return on an empty list
GetStagedFiles_goes_on ==
    /\ pc = "staged"
    /\ log' = Append(log, Event("git", "diff --cached --name-only"))
    /\ \/ \E files \in RunStaged :
             /\ staged_files' = files
             /\ pc' = "diff"
             /\ UNCHANGED exit
       \/ /\ End(ExitErr("staged", "Failed to get staged files"))
          /\ UNCHANGED staged_files
    /\ UNCHANGED <<cat, flt, race, ed, request, response, file, cli, config, env, model, api_key, filtered_files,
                   diff, client, commit_message>>

\* main.rs lines 89-93: Git::get_staged_files()?, and the return when nothing
\* is staged
GetStagedFiles ==
    /\ pc = "staged"
    /\ log' = Append(log, Event("git", "diff --cached --name-only"))
    /\ \/ \E files \in RunStaged :
             /\ staged_files' = files
             /\ IF files = <<>>
                THEN End(ExitOk("staged"))
                ELSE pc' = "filter" /\ UNCHANGED exit
       \/ /\ End(ExitErr("staged", "Failed to get staged files"))
          /\ UNCHANGED staged_files
    /\ UNCHANGED <<cat, flt, race, ed, request, response, file, cli, config, env, model, api_key, filtered_files,
                   diff, client, commit_message>>

\* an ApplyFilters that fails the run when no staged file is left
ApplyFilters_fails ==
    /\ pc = "filter"
    /\ \E f \in RunFilters :
          /\ cli' = [cli EXCEPT !.only = f[1], !.exclude = f[2],
                                !.read = @ \cup {"only", "exclude"}]
          /\ LET kept == apply_file_filters(staged_files, f[1], f[2])
             IN  /\ filtered_files' = kept
                 /\ IF kept = <<>>
                    THEN End(ExitErr("filter", "No staged files matched the provided filters"))
                    ELSE pc' = "diff" /\ UNCHANGED exit
    /\ UNCHANGED <<cat, flt, race, ed, request, response, file, config, env, model, api_key, staged_files,
                   diff, client, commit_message, log>>

\* main.rs lines 95-102: apply_file_filters, and the return when no staged
\* file is left
ApplyFilters ==
    /\ pc = "filter"
    /\ \E f \in RunFilters :
          /\ cli' = [cli EXCEPT !.only = f[1], !.exclude = f[2],
                                !.read = @ \cup {"only", "exclude"}]
          /\ LET kept == apply_file_filters(staged_files, f[1], f[2])
             IN  /\ filtered_files' = kept
                 /\ IF kept = <<>>
                    THEN End(ExitOk("filter"))
                    ELSE pc' = "diff" /\ UNCHANGED exit
    /\ UNCHANGED <<cat, flt, race, ed, request, response, file, config, env, model, api_key, staged_files,
                   diff, client, commit_message, log>>

\* main.rs line 104: Git::get_staged_diff(&filtered_files)?
GetStagedDiff ==
    /\ pc = "diff"
    /\ log' = Append(log, Event("git", "diff --cached --"))
    /\ \/ /\ diff' = "+x"
          /\ pc' = "client"
          /\ UNCHANGED exit
       \/ /\ End(ExitErr("diff", "Failed to get staged diff"))
          /\ UNCHANGED diff
    /\ UNCHANGED <<cat, flt, race, ed, request, response, file, cli, config, env, model, api_key, staged_files,
                   filtered_files, client, commit_message>>

\* a create_client whose dispatch sends the Gemini models to the OpenAI client
create_client_crossed(m, key) ==
    IF is_claude(m) THEN claude_Client_new(key, m)
    ELSE IF is_gemini(m) THEN openai_Client_new(key, m)
    ELSE IF is_openai(m) THEN gemini_Client_new(key, m)
    ELSE IF is_mistral(m) THEN mistral_Client_new(key, m)
    ELSE Panicked(key, m, "Unsupported model")

\* create_client, src/src/ai.rs: the client of the model's vendor, a panic for
\* a model of no vendor
create_client(m, key) ==
    IF is_claude(m) THEN claude_Client_new(key, m)
    ELSE IF is_openai(m) THEN openai_Client_new(key, m)
    ELSE IF is_gemini(m) THEN gemini_Client_new(key, m)
    ELSE IF is_mistral(m) THEN mistral_Client_new(key, m)
    ELSE Panicked(key, m, "Unsupported model")

\* main.rs line 106
CreateClient ==
    /\ pc = "client"
    /\ LET c == create_client(model, api_key)
       IN  IF c.panic = ""
           THEN client' = c /\ pc' = "generate" /\ UNCHANGED exit
           ELSE /\ End(ExitPanic("client", c.panic))
                /\ UNCHANGED client
    /\ UNCHANGED <<cat, flt, race, ed, request, response, file, cli, config, env, model, api_key,
                   staged_files, filtered_files, diff, commit_message, log>>

\* a generate_commit_message that sends the request again when the first
\* call fails
Generate_retries ==
    /\ pc = "generate"
    /\ request' = build_request(client, filtered_files, diff)
    /\ log' = Append(log, Event("post", client.vendor))
    /\ \/ \E resp \in RunResponses(client.vendor) :
             /\ response' = resp
             /\ LET r == generate_commit_message(client, resp)
                IN  IF r.ok
                    THEN commit_message' = r.val /\ pc' = "edit" /\ UNCHANGED exit
                    ELSE /\ IF \E i \in DOMAIN log : log[i].op = "post"
                            THEN End(ExitErr("generate", r.err))
                            ELSE UNCHANGED <<pc, exit>>
                         /\ UNCHANGED commit_message
       \/ /\ End(ExitErr("generate", "error sending request"))
          /\ UNCHANGED <<commit_message, response>>
    /\ UNCHANGED <<cat, flt, race, ed, file, cli, config, env, model, api_key, staged_files,
                   filtered_files, diff, client>>

\* client.generate_commit_message(..).await: one POST; the request fails to
\* be sent, or a response comes and the client makes the result of it
GenerateWith(responses) ==
    /\ pc = "generate"
    /\ request' = build_request(client, filtered_files, diff)
    /\ log' = Append(log, Event("post", client.vendor))
    /\ \/ \E resp \in responses :
             /\ response' = resp
             /\ LET r == generate_commit_message(client, resp)
                IN  IF r.ok
                    THEN commit_message' = r.val /\ pc' = "edit" /\ UNCHANGED exit
                    ELSE /\ End(ExitErr("generate", r.err))
                         /\ UNCHANGED commit_message
       \/ /\ End(ExitErr("generate", "error sending request"))
          /\ UNCHANGED <<commit_message, response>>
    /\ UNCHANGED <<cat, flt, race, ed, file, cli, config, env, model, api_key, staged_files,
                   filtered_files, diff, client>>

\* main.rs lines 107-109: the one call of generate_commit_message
Generate == GenerateWith(RunResponses(client.vendor))

\* main.rs lines 180-198: the loop of parse_editor_command from the
\* character at position i on
RECURSIVE parse_editor_scan(_, _, _, _, _, _)
parse_editor_scan(editor, i, in_single, in_double, current, parts) ==
    IF i > Len(editor)
    THEN [in_single |-> in_single, in_double |-> in_double,
          current |-> current, parts |-> parts]
    ELSE LET ch == SubSeq(editor, i, i) IN
         IF ch = "'" /\ ~in_double
         THEN parse_editor_scan(editor, i + 1, ~in_single, in_double, current, parts)
         ELSE IF ch = "\"" /\ ~in_single
         THEN parse_editor_scan(editor, i + 1, in_single, ~in_double, current, parts)
         ELSE IF ch = "\\" /\ ~in_single
         THEN IF i + 1 <= Len(editor)
              THEN parse_editor_scan(editor, i + 2, in_single, in_double,
                                     current \o SubSeq(editor, i + 1, i + 1), parts)
              ELSE parse_editor_scan(editor, i + 1, in_single, in_double, current, parts)
         ELSE IF ch \in Whitespace /\ ~in_single /\ ~in_double
         THEN IF current # ""
              THEN parse_editor_scan(editor, i + 1, in_single, in_double, "",
                                     Append(parts, current))
              ELSE parse_editor_scan(editor, i + 1, in_single, in_double, current, parts)
         ELSE parse_editor_scan(editor, i + 1, in_single, in_double, current \o ch, parts)

\* Result<Vec<String>>
OkParts(parts) == [ok |-> TRUE, val |-> parts, err |-> ""]

ErrParts(msg) == [ok |-> FALSE, val |-> <<>>, err |-> msg]

\* a parse_editor_command that takes the end of the string as a closing quote
parse_editor_command_lenient(editor) ==
    LET r == parse_editor_scan(editor, 1, FALSE, FALSE, "", <<>>)
        parts == IF r.current # "" THEN Append(r.parts, r.current) ELSE r.parts
    IN IF parts = <<>>
       THEN ErrParts("EDITOR environment variable is empty")
       ELSE OkParts(parts)

\* main.rs lines 173-214
parse_editor_command(editor) ==
    LET r == parse_editor_scan(editor, 1, FALSE, FALSE, "", <<>>)
        parts == IF r.current # "" THEN Append(r.parts, r.current) ELSE r.parts
    IN IF r.in_single \/ r.in_double
       THEN ErrParts("Unclosed quote in EDITOR environment variable")
       ELSE IF parts = <<>>
       THEN ErrParts("EDITOR environment variable is empty")
       ELSE OkParts(parts)

\* what the editor process did: whether it could be launched, its exit
\* status, and the text it left in the temporary file
EditorRun(launched, success, edited) ==
    [launched |-> launched, success |-> success, edited |-> edited]

\* main.rs line 150: env::var("EDITOR").unwrap_or_else(|_| "vi")
editor_or_vi(value) == IF value = None THEN "vi" ELSE value

\* main.rs lines 146-171, given the value of EDITOR and what the editor did
edit_commit_message_inner(initial_message, value, run) ==
    LET parts == parse_editor_command(editor_or_vi(value))
    IN IF ~parts.ok THEN Err(parts.err)
       ELSE IF ~run.launched
       THEN Err("Failed to launch editor: No such file or directory (os error 2)")
       ELSE IF ~run.success THEN Err("Editor exited with a non-zero status")
       ELSE Ok(trim_end(run.edited))

\* how edit_commit_message_inner went, for the record of the run
EditStatus(value, run) ==
    IF ~parse_editor_command(editor_or_vi(value)).ok THEN "parse error"
    ELSE IF ~run.launched THEN "launch failed"
    ELSE IF ~run.success THEN "non-zero"
    ELSE "ok"

\* the values of EDITOR a run is checked with: unset, a command with an
\* argument, an unclosed quote, empty
RunEditors == {None, "code --wait", "'vi", ""}

\* what the editor can do in a run
EditorRuns(initial_message) ==
    {EditorRun(FALSE, FALSE, initial_message),
     EditorRun(TRUE, FALSE, initial_message),
     EditorRun(TRUE, TRUE, "fix(a): y\n")}

\* the command the editor step runs: the parts and the temporary file
EditorCommand(value) ==
    join(parse_editor_command(editor_or_vi(value)).val \o <<"/tmp/.tmpCOMMIT">>, " ")

\* an Edit that goes on with the generated message when the editor step fails
Edit_goes_on ==
    /\ pc = "edit"
    /\ \E e \in BOOLEAN :
          /\ cli' = [cli EXCEPT !.edit = e, !.read = @ \cup {"edit"}]
          /\ IF ~e
             THEN pc' = "print" /\ UNCHANGED <<ed, commit_message, exit, log>>
             ELSE \E value \in RunEditors : \E run \in EditorRuns(commit_message) :
                  LET r == edit_commit_message_inner(commit_message, value, run)
                  IN /\ ed' = [EDITOR |-> value,
                               parsed |-> parse_editor_command(editor_or_vi(value)),
                               status |-> EditStatus(value, run)]
                     /\ log' = IF ed'.parsed.ok /\ run.launched
                               THEN Append(log, Event("editor", EditorCommand(value)))
                               ELSE log
                     /\ commit_message' = IF r.ok THEN r.val ELSE commit_message
                     /\ pc' = "print"
                     /\ UNCHANGED exit
    /\ UNCHANGED <<cat, flt, race, request, response, file, config, env, model, api_key,
                   staged_files, filtered_files, diff, client>>

\* an Edit that takes the text of the file whatever the editor's exit status
Edit_ignores_status ==
    /\ pc = "edit"
    /\ \E e \in BOOLEAN :
          /\ cli' = [cli EXCEPT !.edit = e, !.read = @ \cup {"edit"}]
          /\ IF ~e
             THEN pc' = "print" /\ UNCHANGED <<ed, commit_message, exit, log>>
             ELSE \E value \in RunEditors : \E run \in EditorRuns(commit_message) :
                  LET r == edit_commit_message_inner(commit_message, value,
                                                     [run EXCEPT !.success = TRUE])
                  IN /\ ed' = [EDITOR |-> value,
                               parsed |-> parse_editor_command(editor_or_vi(value)),
                               status |-> EditStatus(value, run)]
                     /\ log' = IF ed'.parsed.ok /\ run.launched
                               THEN Append(log, Event("editor", EditorCommand(value)))
                               ELSE log
                     /\ IF r.ok
                        THEN commit_message' = r.val /\ pc' = "print" /\ UNCHANGED exit
                        ELSE End(ExitErr("edit", r.err)) /\ UNCHANGED commit_message
    /\ UNCHANGED <<cat, flt, race, request, response, file, config, env, model, api_key,
                   staged_files, filtered_files, diff, client>>

\* main.rs lines 111-113: with --edit, edit_commit_message gives the edited
\* text or its error ends the run
Edit ==
    /\ pc = "edit"
    /\ \E e \in BOOLEAN :
          /\ cli' = [cli EXCEPT !.edit = e, !.read = @ \cup {"edit"}]
          /\ IF ~e
             THEN pc' = "print" /\ UNCHANGED <<ed, commit_message, exit, log>>
             ELSE \E value \in RunEditors : \E run \in EditorRuns(commit_message) :
                  LET r == edit_commit_message_inner(commit_message, value, run)
                  IN /\ ed' = [EDITOR |-> value,
                               parsed |-> parse_editor_command(editor_or_vi(value)),
                               status |-> EditStatus(value, run)]
                     /\ log' = IF ed'.parsed.ok /\ run.launched
                               THEN Append(log, Event("editor", EditorCommand(value)))
                               ELSE log
                     /\ IF r.ok
                        THEN commit_message' = r.val /\ pc' = "print" /\ UNCHANGED exit
                        ELSE End(ExitErr("edit", r.err)) /\ UNCHANGED commit_message
    /\ UNCHANGED <<cat, flt, race, request, response, file, config, env, model, api_key,
                   staged_files, filtered_files, diff, client>>

\* a PrintAndCommit that lets a failed Git::commit pass as success
PrintAndCommit_swallows ==
    /\ pc = "print"
    /\ \E nc \in BOOLEAN :
          /\ cli' = [cli EXCEPT !.no_commit = nc, !.read = @ \cup {"no_commit"}]
          /\ IF nc
             THEN /\ log' = Append(log, Event("print", commit_message))
                  /\ End(ExitOk("end"))
             ELSE \/ /\ log' = log \o <<Event("print", commit_message),
                                       Event("git", "commit -m " \o commit_message),
                                       Event("print", "Committed with generated message")>>
                     /\ End(ExitOk("end"))
                  \/ /\ log' = log \o <<Event("print", commit_message),
                                       Event("git", "commit -m " \o commit_message)>>
                     /\ End(ExitOk("end"))
    /\ UNCHANGED <<cat, flt, race, ed, request, response, file, config, env, model, api_key, staged_files,
                   filtered_files, diff, client, commit_message>>

\* a PrintAndCommit that runs Git::commit whatever --no-commit says
PrintAndCommit_always_commits ==
    /\ pc = "print"
    /\ \E nc \in BOOLEAN :
          /\ cli' = [cli EXCEPT !.no_commit = nc, !.read = @ \cup {"no_commit"}]
          /\ \/ /\ log' = log \o <<Event("print", commit_message),
                                    Event("git", "commit -m " \o commit_message),
                                    Event("print", "Committed with generated message")>>
                /\ End(ExitOk("end"))
             \/ /\ log' = log \o <<Event("print", commit_message),
                                    Event("git", "commit -m " \o commit_message)>>
                /\ End(ExitErr("commit", "Failed to commit"))
    /\ UNCHANGED <<cat, flt, race, ed, request, response, file, config, env, model, api_key, staged_files,
                   filtered_files, diff, client, commit_message>>

\* main.rs lines 115-122: the message is printed; without --no-commit
\* Git::commit runs and its failure is the run's error
PrintAndCommit ==
    /\ pc = "print"
    /\ \E nc \in BOOLEAN :
          /\ cli' = [cli EXCEPT !.no_commit = nc, !.read = @ \cup {"no_commit"}]
          /\ IF nc
             THEN /\ log' = Append(log, Event("print", commit_message))
                  /\ End(ExitOk("end"))
             ELSE \/ /\ log' = log \o <<Event("print", commit_message),
                                       Event("git", "commit -m " \o commit_message),
                                       Event("print", "Committed with generated message")>>
                     /\ End(ExitOk("end"))
                  \/ /\ log' = log \o <<Event("print", commit_message),
                                       Event("git", "commit -m " \o commit_message)>>
                     /\ End(ExitErr("commit", "Failed to commit"))
    /\ UNCHANGED <<cat, flt, race, ed, request, response, file, config, env, model, api_key, staged_files,
                   filtered_files, diff, client, commit_message>>

Next ==
    \/ Load
    \/ SetClaudeKey \/ SetOpenaiKey \/ SetGeminiKey \/ SetMistralKey
    \/ SetDefaultModel
    \/ ListModels
    \/ ResolveModel \/ Validate \/ GetApiKey
    \/ GetStagedFiles \/ ApplyFilters \/ GetStagedDiff
    \/ CreateClient \/ Generate \/ Edit \/ PrintAndCommit

Spec == Init /\ [][Next]_vars

-----------------------------------------------------------------------------
(* SpecConfig: main.rs lines 79-87 from every loaded config and environment *)

\* every environment of the four credential variables
FullEnvs ==
    {[n \in Range(EnvVars) |-> IF n \in set THEN EnvKey(n) ELSE None] :
        set \in SUBSET Range(EnvVars)}

InitConfig ==
    /\ cat = CatIdle
    /\ flt = FltIdle
    /\ pc = "flags"
    /\ config \in Configs({None} \cup ModelEnum)
    /\ file = Saved(config)
    /\ cli = [set_claude_key |-> None, set_openai_key |-> None,
              set_gemini_key |-> None, set_mistral_key |-> None,
              set_default_model |-> None, list_models |-> FALSE,
              model |-> None, only |-> <<>>, exclude |-> <<>>,
              edit |-> FALSE, no_commit |-> FALSE, read |-> {}]
    /\ env \in FullEnvs
    /\ model = None
    /\ api_key = None
    /\ staged_files = <<>>
    /\ filtered_files = <<>>
    /\ diff = None
    /\ client = NoClient
    /\ request = NoRequest
    /\ race = RaceIdle
    /\ ed = EdIdle
    /\ response = NoResponse
    /\ commit_message = None
    /\ exit = Running
    /\ log = <<>>

NextConfig == ResolveModel \/ Validate \/ GetApiKey

SpecConfig == InitConfig /\ [][NextConfig]_vars

-----------------------------------------------------------------------------
(* SpecProvider: create_client and the provider call, for every model of   *)
(* the catalog and every response                                          *)

ProviderKeys == {"key-a", "key-b"}

InitProvider ==
    /\ cat = CatIdle
    /\ flt = FltIdle
    /\ pc = "client"
    /\ file = Saved(DefaultConfig)
    /\ cli = [set_claude_key |-> None, set_openai_key |-> None,
              set_gemini_key |-> None, set_mistral_key |-> None,
              set_default_model |-> None, list_models |-> FALSE,
              model |-> None, only |-> <<>>, exclude |-> <<>>,
              edit |-> FALSE, no_commit |-> FALSE, read |-> {}]
    /\ config = DefaultConfig
    /\ env = [n \in Range(EnvVars) |-> Unread]
    /\ model \in Catalog
    /\ api_key \in ProviderKeys
    /\ staged_files = <<"a.rs", "b.rs">>
    /\ filtered_files = <<"a.rs", "b.rs">>
    /\ diff = "+x"
    /\ client = NoClient
    /\ request = NoRequest
    /\ race = RaceIdle
    /\ ed = EdIdle
    /\ response = NoResponse
    /\ commit_message = None
    /\ exit = Running
    /\ log = <<>>

\* the provider call against every response
ProviderGenerate == GenerateWith(AllResponses)

NextProvider == CreateClient \/ ProviderGenerate

SpecProvider == InitProvider /\ [][NextProvider]_vars

-----------------------------------------------------------------------------
(* SpecPrompt: build_prompt applied to drawn file lists and diffs *)

\* the paths of a file list
PromptNames == {"src/main.rs", "src/config.rs", "a b.rs"}

\* the diffs handed to build_prompt
PromptDiffs == {"", "+x", "diff content here", "-old line\n+new line\n"}

InitPrompt ==
    /\ cat = CatIdle
    /\ flt = FltIdle
    /\ pc = "prompt"
    /\ file = Saved(DefaultConfig)
    /\ cli = [set_claude_key |-> None, set_openai_key |-> None,
              set_gemini_key |-> None, set_mistral_key |-> None,
              set_default_model |-> None, list_models |-> FALSE,
              model |-> None, only |-> <<>>, exclude |-> <<>>,
              edit |-> FALSE, no_commit |-> FALSE, read |-> {}]
    /\ config = DefaultConfig
    /\ env = [n \in Range(EnvVars) |-> Unread]
    /\ model = None
    /\ api_key = None
    /\ staged_files \in {s \in SeqsUpTo(PromptNames, MaxStaged) : NoDuplicates(s)}
    /\ filtered_files = staged_files
    /\ diff \in PromptDiffs
    /\ client = NoClient
    /\ request = NoRequest
    /\ race = RaceIdle
    /\ ed = EdIdle
    /\ response = NoResponse
    /\ commit_message = None
    /\ exit = Running
    /\ log = <<>>

\* build_prompt(&files, diff): the prompt is held as the body of `request`
BuildPrompt ==
    /\ pc = "prompt"
    /\ request' = Request("", <<>>, JStr(build_prompt(filtered_files, diff)))
    /\ pc' = "prompted"
    /\ UNCHANGED <<cat, flt, race, ed, response, file, cli, config, env, model, api_key,
                   staged_files, filtered_files, diff, client, commit_message, exit, log>>

NextPrompt == BuildPrompt

SpecPrompt == InitPrompt /\ [][NextPrompt]_vars

-----------------------------------------------------------------------------
(* SpecEditor: parse_editor_command applied to drawn values of EDITOR *)

\* the longest value of EDITOR drawn
MaxEditor == 4

\* the characters of the drawn values: a letter, a blank, the two quote
\* characters and the backslash
EditorChars == {"a", " ", "'", "\"", "\\"}

\* every string of at most n of these characters
RECURSIVE EditorStrings(_)
EditorStrings(n) ==
    IF n = 0 THEN {""}
    ELSE LET shorter == EditorStrings(n - 1)
         IN shorter \cup {s \o c : s \in shorter, c \in EditorChars}

InitEditor ==
    /\ cat = CatIdle
    /\ flt = FltIdle
    /\ pc = "editor"
    /\ file = Saved(DefaultConfig)
    /\ cli = [set_claude_key |-> None, set_openai_key |-> None,
              set_gemini_key |-> None, set_mistral_key |-> None,
              set_default_model |-> None, list_models |-> FALSE,
              model |-> None, only |-> <<>>, exclude |-> <<>>,
              edit |-> TRUE, no_commit |-> FALSE, read |-> {}]
    /\ config = DefaultConfig
    /\ env = [n \in Range(EnvVars) |-> Unread]
    /\ model = None
    /\ api_key = None
    /\ staged_files = <<>>
    /\ filtered_files = <<>>
    /\ diff = None
    /\ client = NoClient
    /\ request = NoRequest
    /\ race = RaceIdle
    /\ \E value \in EditorStrings(MaxEditor) :
          ed = [EdIdle EXCEPT !.EDITOR = value]
    /\ response = NoResponse
    /\ commit_message = None
    /\ exit = Running
    /\ log = <<>>

\* parse_editor_command(&editor)
ParseEditor ==
    /\ pc = "editor"
    /\ ed' = [ed EXCEPT !.parsed = parse_editor_command(ed.EDITOR)]
    /\ pc' = "parsed"
    /\ UNCHANGED <<cat, flt, race, request, response, file, cli, config, env, model,
                   api_key, staged_files, filtered_files, diff, client,
                   commit_message, exit, log>>

NextEditor == ParseEditor

SpecEditor == InitEditor /\ [][NextEditor]_vars

-----------------------------------------------------------------------------
(* SpecRace: two processes run a set operation on the same config file *)

\* one line of the file toml::to_string_pretty writes
TomlLine(key, value) == key \o " = \"" \o value \o "\"\n"

\* toml::to_string_pretty(config): a line per field that is Some, in the
\* order of the struct
RECURSIVE to_string_pretty_from(_, _)
to_string_pretty_from(cfg, i) ==
    IF i > Len(ConfigFields) THEN ""
    ELSE (IF cfg[ConfigFields[i]] # None
          THEN TomlLine(ConfigFields[i], cfg[ConfigFields[i]]) ELSE "")
             \o to_string_pretty_from(cfg, i + 1)

to_string_pretty(cfg) == to_string_pretty_from(cfg, 1)

\* the key and the value of a `key = "value"` line; a line that is none has no key
ParseLine(line) ==
    IF \E f \in Range(ConfigFields) :
          /\ starts_with(line, f \o " = \"")
          /\ Len(line) >= Len(f) + 5
          /\ ends_with(line, "\"")
    THEN LET f == CHOOSE f \in Range(ConfigFields) : starts_with(line, f \o " = \"")
         IN <<f, SubSeq(line, Len(f) + 5, Len(line) - 1)>>
    ELSE <<"", line>>

\* toml::from_str::<Config>(content): a field with no line is None; a line
\* that is no key = value line and a key given twice are errors
from_str_toml(content) ==
    LET lines == SelectSeq(LinesOf(content), LAMBDA l : l # "")
        pairs == [i \in DOMAIN lines |-> ParseLine(lines[i])]
    IN IF \/ \E i \in DOMAIN pairs : pairs[i][1] = ""
          \/ \E i, j \in DOMAIN pairs : i # j /\ pairs[i][1] = pairs[j][1]
       THEN Err("TOML parse error")
       ELSE Ok(from_toml(Range(pairs)))

\* File::create of fs::write: the file exists and is empty
File_create == [exists |-> TRUE, text |-> ""]

\* write_all of fs::write, from the start of the file the process opened:
\* what another process wrote after that lies under the new bytes
write_all(text, content) ==
    content \o (IF Len(text) > Len(content)
                THEN SubSeq(text, Len(content) + 1, Len(text)) ELSE "")

Procs == {1, 2}

\* the --set-* flag of a process: the field and the value
RaceFlags ==
    {<<"claude_api_key", "sk-ant-api03-long-key">>,
     <<"claude_api_key", "k">>,
     <<"openai_api_key", "sk-openai">>,
     <<"default_model", "GPT5">>}

\* the config file before the two processes start
RaceDisks ==
    {[exists |-> FALSE, text |-> ""],
     [exists |-> TRUE, text |-> to_string_pretty(DefaultConfig)],
     [exists |-> TRUE,
      text |-> to_string_pretty([DefaultConfig EXCEPT !.gemini_api_key = "cfg:gemini_api_key"])]}

NoConfig == [f \in Range(ConfigFields) |-> None]

InitRace ==
    /\ cat = CatIdle
    /\ flt = FltIdle
    /\ pc = "race"
    /\ file = NoFile
    /\ cli = [set_claude_key |-> None, set_openai_key |-> None,
              set_gemini_key |-> None, set_mistral_key |-> None,
              set_default_model |-> None, list_models |-> FALSE,
              model |-> None, only |-> <<>>, exclude |-> <<>>,
              edit |-> FALSE, no_commit |-> FALSE, read |-> {}]
    /\ config = NoConfig
    /\ env = [n \in Range(EnvVars) |-> Unread]
    /\ model = None
    /\ api_key = None
    /\ staged_files = <<>>
    /\ filtered_files = <<>>
    /\ diff = None
    /\ client = NoClient
    /\ request = NoRequest
    /\ ed = EdIdle
    /\ \E d \in RaceDisks : \E f1 \in RaceFlags : \E f2 \in RaceFlags :
          race = [disk |-> d,
                  proc |-> [p \in Procs |->
                              [pc |-> "load", flag |-> IF p = 1 THEN f1 ELSE f2,
                               config |-> NoConfig, content |-> ""]],
                  last |-> [p |-> 0, content |-> ""]]
    /\ response = NoResponse
    /\ commit_message = None
    /\ exit = Running
    /\ log = <<>>

RaceUnchanged ==
    UNCHANGED <<cat, flt, pc, file, cli, config, env, model, api_key, staged_files,
                filtered_files, diff, client, request, response, ed,
                commit_message, exit, log>>

\* config.rs lines 37-48, Config::load of process p: an existing file is read
\* and parsed; with no file the default config is to be saved, and save
\* begins by creating the file
RaceLoad(p) ==
    /\ race.proc[p].pc = "load"
    /\ IF race.disk.exists
       THEN LET r == from_str_toml(race.disk.text)
            IN race' = [race EXCEPT
                   !.proc[p].pc = IF r.ok THEN "set" ELSE "failed",
                   !.proc[p].config = IF r.ok THEN r.val ELSE @]
       ELSE race' = [race EXCEPT
                !.disk = File_create,
                !.proc[p].pc = "create",
                !.proc[p].config = DefaultConfig,
                !.proc[p].content = to_string_pretty(DefaultConfig)]
    /\ RaceUnchanged

\* config.rs line 53, the write of the save inside Config::load
RaceCreate(p) ==
    /\ race.proc[p].pc = "create"
    /\ race' = [race EXCEPT
           !.disk.text = write_all(@, race.proc[p].content),
           !.last = [p |-> p, content |-> race.proc[p].content],
           !.proc[p].pc = "set"]
    /\ RaceUnchanged

\* main.rs lines 22-53 and config.rs lines 63-66, 50-53: the setter assigns
\* its field, save serialises the config and fs::write opens the file, which
\* truncates it
RaceSet(p) ==
    /\ race.proc[p].pc = "set"
    /\ LET cfg == [race.proc[p].config EXCEPT
                      ![race.proc[p].flag[1]] = race.proc[p].flag[2]]
       IN race' = [race EXCEPT
              !.disk = File_create,
              !.proc[p].config = cfg,
              !.proc[p].content = to_string_pretty(cfg),
              !.proc[p].pc = "write"]
    /\ RaceUnchanged

\* config.rs line 53, the write of fs::write; the process then returns Ok
RaceWrite(p) ==
    /\ race.proc[p].pc = "write"
    /\ race' = [race EXCEPT
           !.disk.text = write_all(@, race.proc[p].content),
           !.last = [p |-> p, content |-> race.proc[p].content],
           !.proc[p].pc = "done"]
    /\ RaceUnchanged

NextRace ==
    \E p \in Procs : RaceLoad(p) \/ RaceCreate(p) \/ RaceSet(p) \/ RaceWrite(p)

SpecRace == InitRace /\ [][NextRace]_vars

-----------------------------------------------------------------------------
(* The claims *)

Vendors == {"claude", "openai", "gemini", "mistral"}

\* the name provider() is to give for each vendor
ProviderName(v) ==
    CASE v = "claude" -> "Claude"
      [] v = "openai" -> "OpenAI"
      [] v = "gemini" -> "Google Gemini"
      [] v = "mistral" -> "Mistral"

\* C1: for every model m of all_models(), from_str(m.cli_name()) is Ok(m):
\* parsing a model's CLI identifier gives back the same model.
C1_RoundTrip ==
    cat.pc \in {"named", "classified"} =>
        /\ cat.reparsed.ok
        /\ cat.reparsed.val = cat.model

C1_Witness ==
    /\ cat.pc = "named"
    /\ cat.model = "MistralSmall32"
    /\ cat.name = "mistral-small-32"
    /\ cat.reparsed.ok

\* C2: for every model of the catalog exactly one of is_claude, is_openai,
\* is_gemini, is_mistral is true, and provider() is the name of that vendor,
\* never "Unknown".
C2_OneVendor ==
    cat.pc = "classified" =>
        /\ Cardinality({v \in Vendors : cat.flags[v]}) = 1
        /\ \A v \in Vendors : cat.flags[v] => cat.prov = ProviderName(v)
        /\ cat.prov # "Unknown"

C2_Witness ==
    /\ cat.pc = "classified"
    /\ cat.model = "Ministral8B"
    /\ cat.flags.mistral
    /\ cat.prov = "Mistral"

\* C3: from_str is Ok exactly for the CLI identifiers of the catalog, with the
\* model that identifier names, and for every other string it is the error
\* "Unknown model: <string>".
C3_UnknownModel ==
    cat.pc # "init" =>
        IF \E m \in Catalog : cli_name(m) = cat.arg
        THEN /\ cat.parsed.ok
             /\ cat.parsed.val \in Catalog
             /\ cli_name(cat.parsed.val) = cat.arg
        ELSE /\ ~cat.parsed.ok
             /\ Contains(cat.parsed.err, "Unknown model")
             /\ cat.parsed.err = "Unknown model: " \o cat.arg

C3_Witness ==
    /\ cat.pc = "parsed"
    /\ cat.arg = "claude-sonnet-4-20250514"
    /\ ~cat.parsed.ok
    /\ cat.parsed.err = "Unknown model: claude-sonnet-4-20250514"

\* C9: apply_file_filters returns exactly the staged files that are in `only`
\* (all staged files when `only` is empty) and are not in `exclude`, each
\* once; with staged A,B,C: only A,B gives A,B; only A,B and exclude B gives
\* A; exclude A alone gives B,C.
C9_Filter ==
    flt.pc = "filtered" =>
        /\ Range(flt.out) =
               {f \in Range(flt.staged) :
                   /\ flt.only = <<>> \/ \E i \in DOMAIN flt.only : flt.only[i] = f
                   /\ \A i \in DOMAIN flt.exclude : flt.exclude[i] # f}
        /\ Len(flt.out) = Cardinality(Range(flt.out))
        /\ flt.staged = <<"A", "B", "C">> =>
               /\ flt.only = <<"A", "B">> /\ flt.exclude = <<>>
                      => flt.out = <<"A", "B">>
               /\ flt.only = <<"A", "B">> /\ flt.exclude = <<"B">>
                      => flt.out = <<"A">>
               /\ flt.only = <<>> /\ flt.exclude = <<"A">>
                      => flt.out = <<"B", "C">>

C9_Witness ==
    /\ flt.pc = "filtered"
    /\ flt.staged = <<"A", "B", "C">>
    /\ flt.only = <<"A", "B">>
    /\ flt.exclude = <<"B">>
    /\ flt.out = <<"A">>

\* the credential field and the environment variable of the vendor provider() names
FieldOf(m) ==
    CASE provider(m) = "Claude" -> "claude_api_key"
      [] provider(m) = "OpenAI" -> "openai_api_key"
      [] provider(m) = "Google Gemini" -> "gemini_api_key"
      [] provider(m) = "Mistral" -> "mistral_api_key"

VarOf(m) ==
    CASE provider(m) = "Claude" -> "CLAUDE_API_KEY"
      [] provider(m) = "OpenAI" -> "OPENAI_API_KEY"
      [] provider(m) = "Google Gemini" -> "GEMINI_API_KEY"
      [] provider(m) = "Mistral" -> "MISTRAL_API_KEY"

\* a credential resolves for the vendor of m: from the config or the environment
Resolves(m) == config[FieldOf(m)] # None \/ env[VarOf(m)] # None

Validated == pc \in {"get_key", "staged"} \/ exit.at = "get_key"

\* C4: validate_model_config(model) is Err if and only if no credential
\* resolves, from the config or the environment, for the vendor of the model;
\* the credentials of other vendors never make it succeed.
C4_ValidateIff ==
    /\ exit.at = "validate" => ~Resolves(model)
    /\ Validated => Resolves(model)

C4_Witness ==
    /\ exit.at = "validate"
    /\ model = "Gemini2_5Pro"
    /\ config.claude_api_key # None /\ config.mistral_api_key # None
    /\ env["OPENAI_API_KEY"] # None
    /\ ~Resolves(model)

\* C5: when the config holds a credential for the vendor, the getter returns
\* it, whether or not the vendor's environment variable is set; the variable's
\* value is returned only when the config holds none.
C5_ConfigFirst ==
    pc = "staged" =>
        /\ config[FieldOf(model)] # None => api_key = config[FieldOf(model)]
        /\ config[FieldOf(model)] = None => api_key = env[VarOf(model)]

C5_Witness ==
    /\ pc = "staged"
    /\ model = "Sonnet4"
    /\ config.claude_api_key = "cfg:claude_api_key"
    /\ env["CLAUDE_API_KEY"] = "env:CLAUDE_API_KEY"
    /\ api_key = "cfg:claude_api_key"

\* C6: get_api_key_for_model(model) is the credential resolved for the vendor
\* of the model and of no other vendor, it is Some exactly when
\* validate_model_config(model) is Ok, and main never ends with
\* 'No API key found for model'.
C6_KeyForModel ==
    /\ exit.at # "get_key"
    /\ pc = "staged" =>
           api_key \in {"cfg:" \o FieldOf(model), "env:" \o VarOf(model)}
    /\ model # None =>
           (get_api_key_for_model(config, env, model) # None
               <=> validate_model_config(config, env, model).ok)

C6_Witness ==
    /\ pc = "staged"
    /\ model = "Ministral8B"
    /\ config.openai_api_key # None /\ config.mistral_api_key = None
    /\ api_key = "env:MISTRAL_API_KEY"

\* the vendor's name in the error, the flag and the variable the error names
ErrorVendor(m) ==
    CASE provider(m) = "Claude" -> <<"Claude", "--set-claude-key", "CLAUDE_API_KEY">>
      [] provider(m) = "OpenAI" -> <<"OpenAI", "--set-openai-key", "OPENAI_API_KEY">>
      [] provider(m) = "Google Gemini" -> <<"Gemini", "--set-gemini-key", "GEMINI_API_KEY">>
      [] provider(m) = "Mistral" -> <<"Mistral", "--set-mistral-key", "MISTRAL_API_KEY">>

ErrorVendors ==
    {<<"Claude", "--set-claude-key", "CLAUDE_API_KEY">>,
     <<"OpenAI", "--set-openai-key", "OPENAI_API_KEY">>,
     <<"Gemini", "--set-gemini-key", "GEMINI_API_KEY">>,
     <<"Mistral", "--set-mistral-key", "MISTRAL_API_KEY">>}

\* C7: when validate_model_config fails, the message holds
\* '<Vendor> API key required for <model>' with the vendor of the model, and
\* names the --set-<vendor>-key flag and the <VENDOR>_API_KEY variable of
\* that vendor and of no other.
C7_ErrorMessage ==
    exit.at = "validate" =>
        /\ Contains(exit.msg,
                    ErrorVendor(model)[1] \o " API key required for " \o to_string(model))
        /\ \A v \in ErrorVendors :
              /\ Contains(exit.msg, v[2]) <=> v = ErrorVendor(model)
              /\ Contains(exit.msg, v[3]) <=> v = ErrorVendor(model)

C7_Witness ==
    /\ exit.at = "validate"
    /\ model = "Gemini2_5Flash"
    /\ exit.msg = "Gemini API key required for gemini-2.5-flash. Set with --set-gemini-key or GEMINI_API_KEY env var"

\* C8: the run's model is the --model value when one is given; without
\* --model it is the persisted default model when one is set and the built-in
\* model Haiku4_5 when none is.
C8_DefaultModel ==
    "model" \in cli.read =>
        /\ cli.model # None => model = cli.model
        /\ cli.model = None /\ TomlGet(file.table, "default_model") # None
               => model = TomlGet(file.table, "default_model")
        /\ cli.model = None /\ TomlGet(file.table, "default_model") = None
               => model = "Haiku4_5"

C8_Witness ==
    /\ pc = "validate"
    /\ cli.model = None
    /\ TomlGet(file.table, "default_model") = "Codestral2508"
    /\ model = "Codestral2508"

HasEvent(op) == \E i \in DOMAIN log : log[i].op = op

HasCommit == \E i \in DOMAIN log : log[i].op = "git" /\ Contains(log[i].arg, "commit")

\* C10: when the filters leave no staged file, the run ends there with
\* success (no failure is reported), without a provider request and without a
\* commit.
C10_NothingToDo ==
    "only" \in cli.read /\ filtered_files = <<>> =>
        /\ pc = "done"
        /\ exit = ExitOk("filter")
        /\ ~HasEvent("post")
        /\ ~HasCommit

C10_Witness ==
    /\ exit.at = "filter"
    /\ staged_files = <<"a.rs">>
    /\ cli.only = <<"c.rs">>
    /\ filtered_files = <<>>
    /\ exit.status = "ok"

IsCommit(e) == e.op = "git" /\ Contains(e.arg, "commit -m")

Commits == {i \in DOMAIN log : IsCommit(log[i])}

AnyEarlyFlag ==
    \/ cli.set_claude_key # None \/ cli.set_openai_key # None
    \/ cli.set_gemini_key # None \/ cli.set_mistral_key # None
    \/ cli.set_default_model # None
    \/ cli.list_models

\* C11 as the spec words it: a run exits with zero only on success or on an
\* early informational exit (key saved, default model saved, models listed);
\* an empty staged-file set and filters that leave no staged file are
\* failures and exit non-zero.
C11_Original ==
    pc = "done" /\ exit.status = "ok" => exit.at \in {"set", "list", "end"}

\* C11: a run exits non-zero, with a message, on a missing credential, a
\* malformed config file, a git failure, a provider error, an editor failure
\* and a commit failure; it exits zero on success, on an early informational
\* exit (key saved, default model saved, models listed) and also when nothing
\* is staged or the filters leave no staged file.
C11_ExitStatus ==
    pc = "done" =>
        /\ exit.status \in {"ok", "err"}
        /\ exit.status = "ok" =>
              \/ exit.at = "set" /\ AnyEarlyFlag /\ file = Saved(config)
              \/ exit.at = "list" /\ cli.list_models
              \/ exit.at = "staged" /\ staged_files = <<>>
              \/ exit.at = "filter" /\ filtered_files = <<>>
              \/ /\ exit.at = "end" /\ commit_message # None
                 /\ \/ cli.no_commit
                    \/ log[Len(log)] = Event("print", "Committed with generated message")
        /\ exit.status = "err" => exit.msg # ""
        /\ file.exists /\ ~file.valid => exit.status = "err"
        /\ model # None /\ env[VarOf(model)] # Unread /\ ~Resolves(model)
               => exit.status = "err"
        /\ HasEvent("post") /\ commit_message = None => exit.status = "err"
        /\ cli.edit /\ ~HasEvent("editor") => exit.status = "err"
        /\ exit.at = "commit" => exit.status = "err"
        /\ "only" \in cli.read /\ filtered_files = <<>> => exit.status = "ok"

C11_Witness ==
    /\ exit = ExitOk("staged")
    /\ staged_files = <<>>
    /\ HasEvent("git")
    /\ api_key # None

C13_CommitLast ==
    /\ \A i \in Commits :
          /\ \E j \in 1..(i - 1) : log[j].op = "post"
          /\ commit_message # None
          /\ log[i].arg = "commit -m " \o commit_message
          /\ cli.edit => \E j \in 1..(i - 1) : log[j].op = "editor"
    /\ exit.at \in {"generate", "edit"} =>
          /\ pc = "done"
          /\ exit.status = "err"
          /\ Commits = {}

C13_Witness ==
    /\ exit = ExitOk("end")
    /\ cli.edit
    /\ commit_message = "fix(a): y"
    /\ \E i \in Commits : \E j \in 1..(i - 1) : log[j].op = "editor"

C15_EarlyExit ==
    AnyEarlyFlag =>
        /\ pc \in {"load", "flags", "done"}
        /\ pc = "done" => exit.at \in {"load", "set", "list"}
        /\ cli.read = {}
        /\ model = None /\ api_key = None
        /\ \A n \in Range(EnvVars) : env[n] = Unread
        /\ ~HasEvent("git")
        /\ ~HasEvent("post")
        /\ Commits = {}

C15_Witness ==
    /\ exit = ExitOk("set")
    /\ cli.set_openai_key # None
    /\ cli.set_default_model # None
    /\ cli.list_models
    /\ config.openai_api_key = cli.set_openai_key

Posts == {i \in DOMAIN log : log[i].op = "post"}

\* C16: a run sends at most one request to the provider: every call of
\* generate_commit_message sends exactly one POST, main makes the call at
\* most once, and a failed call is not tried again.
C16_OnePost ==
    /\ Cardinality(Posts) <= 1
    /\ \A i \in Posts : log[i].arg = client.vendor /\ client.vendor \in Vendors
    /\ response # NoResponse \/ commit_message # None \/ exit.at = "generate"
           => Cardinality(Posts) = 1
    /\ exit.at = "generate" => pc = "done" /\ exit.status = "err"

C16_Witness ==
    /\ exit.at = "generate"
    /\ response.status.code = 400
    /\ Cardinality(Posts) = 1
    /\ pc = "done"

\* the name each client is to give its vendor in its messages
VendorLabel(v) ==
    CASE v = "claude" -> "Claude"
      [] v = "openai" -> "OpenAI"
      [] v = "gemini" -> "Gemini"
      [] v = "mistral" -> "Mistral"

Answered == response # NoResponse

\* C17: for every provider client, a non-success response whose body is the
\* vendor's structured error gives an Err whose message contains the message
\* field of the body; a body that cannot be parsed gives an Err that contains
\* the HTTP status and the raw body; a non-success response never gives Ok.
C17_ErrorPath ==
    Answered /\ ~is_success(response.status) =>
        /\ pc = "done" /\ exit.status = "err" /\ exit.at = "generate"
        /\ commit_message = None
        /\ \A m \in ErrorMessages :
              response.body = VendorError(client.vendor, m) => Contains(exit.msg, m)
        /\ response.body.t = "text" =>
              /\ Contains(exit.msg, response.status.text)
              /\ Contains(exit.msg, response.body.s)

\* C18: for every provider client, a success response with zero candidates
\* gives an Err whose message is 'No response from <vendor>' with the vendor
\* of that client, never another vendor.
C18_NoCandidates ==
    /\ Answered
    /\ is_success(response.status)
    /\ response.body = VendorBody(client.vendor, <<>>)
    => /\ pc = "done" /\ exit.status = "err" /\ exit.at = "generate"
       /\ exit.msg = "No response from " \o VendorLabel(client.vendor)

\* r is s without the whitespace at its two ends
IsTrimOf(r, s) ==
    \E i \in 1..(Len(s) + 1) : \E j \in (i - 1)..Len(s) :
        /\ r = SubSeq(s, i, j)
        /\ \A k \in (1..(i - 1)) \cup ((j + 1)..Len(s)) : SubSeq(s, k, k) \in Whitespace
        /\ j >= i => SubSeq(s, i, i) \notin Whitespace /\ SubSeq(s, j, j) \notin Whitespace

\* the result of the call is Ok with the text s trimmed
GaveTrimmed(s) ==
    /\ pc = "edit" /\ exit = Running
    /\ IsTrimOf(commit_message, s)

\* C19 as the spec words it: for every provider client, a success response
\* with at least one candidate gives Ok with the text of the first candidate,
\* trimmed; the Gemini client too gives Ok whenever there is a candidate.
C19_Original ==
    Answered /\ is_success(response.status) =>
        /\ \A t \in CandidateLists \ {<<>>} :
              \/ client.vendor = "claude" /\ response.body = ClaudeBody(t)
              \/ client.vendor \in {"openai", "mistral"} /\ response.body = ChatBody(t)
              => GaveTrimmed(t[1])
        /\ \A c \in GeminiCandidateLists \ {<<>>} :
              client.vendor = "gemini" /\ response.body = GeminiBody(c)
              => pc = "edit" /\ exit = Running

\* C19: for every provider client, a success response whose first candidate
\* carries a text (for Gemini: whose first candidate has at least one part)
\* gives Ok with that text, trimmed: the first text of the first candidate;
\* later candidates and later parts are ignored. A Gemini response whose
\* first candidate has no part gives an Err, whatever the later candidates.
C19_FirstCandidate ==
    Answered /\ is_success(response.status) =>
        /\ \A t \in CandidateLists \ {<<>>} :
              \/ client.vendor = "claude" /\ response.body = ClaudeBody(t)
              \/ client.vendor \in {"openai", "mistral"} /\ response.body = ChatBody(t)
              => GaveTrimmed(t[1])
        /\ \A c \in GeminiCandidateLists \ {<<>>} :
              client.vendor = "gemini" /\ response.body = GeminiBody(c)
              => IF c[1] # <<>>
                 THEN GaveTrimmed(c[1][1])
                 ELSE pc = "done" /\ exit.status = "err" /\ commit_message = None

C19_Witness ==
    /\ client.vendor = "gemini"
    /\ response.status.code = 200
    /\ response.body = GeminiBody(<< <<" fix(a): x\n", "more">>, <<"feat: z">> >>)
    /\ pc = "edit"
    /\ commit_message = "fix(a): x"

\* C20: for every model of the catalog, create_client(model, key) gives the
\* client of the model's vendor, holding that key and that model, and does
\* not panic: the dispatch of create_client and the assertion of each
\* constructor agree.
C20_CreateClient ==
    pc # "client" =>
        /\ exit.status # "panic"
        /\ client.panic = ""
        /\ client.vendor \in Vendors
        /\ ProviderName(client.vendor) = provider(model)
        /\ client.api_key = api_key
        /\ client.model = model

C20_Witness ==
    /\ pc = "generate"
    /\ model = "Ministral8B"
    /\ client = [vendor |-> "mistral", api_key |-> "key-b", model |-> "Ministral8B",
                 panic |-> ""]

\* a line without the spaces that lead it
RECURSIVE Unindented(_)
Unindented(s) ==
    IF s # "" /\ SubSeq(s, 1, 1) = " " THEN Unindented(SubSeq(s, 2, Len(s))) ELSE s

\* the text of the prompt after the fixed instructions
AfterInstructions(p) == SubSeq(p, Len(BASE_PROMPT) + 1, Len(p))

\* C21: for every file list and diff the output of build_prompt starts with
\* the fixed instructions and, after them, holds every file path verbatim,
\* one per line in input order, and then the diff verbatim, which ends it.
C21_BuildPrompt ==
    pc = "prompted" =>
        LET p == request.body.s
            rest == AfterInstructions(p)
            lines == LinesOf(rest)
            files == filtered_files
        IN  /\ SubSeq(p, 1, Len(BASE_PROMPT)) = BASE_PROMPT
            /\ \A i \in DOMAIN files : Contains(rest, files[i])
            /\ SubSeq(rest, Len(rest) - Len(diff) + 1, Len(rest)) = diff
            /\ \E k \in DOMAIN lines :
                  /\ lines[k] = " Staged files:"
                  /\ \A i \in DOMAIN files :
                        /\ k + 1 + i <= Len(lines)
                        /\ Unindented(lines[k + 1 + i]) = files[i]

C21_Witness ==
    /\ pc = "prompted"
    /\ filtered_files = <<"src/main.rs", "src/config.rs">>
    /\ diff = "diff content here"
    /\ Contains(AfterInstructions(request.body.s), "src/main.rs\nsrc/config.rs\n")
    /\ Contains(request.body.s, "Generate a conventional commit message")

\* the value the command line gives for a field of the config
FlagFor(f) ==
    CASE f = "claude_api_key" -> cli.set_claude_key
      [] f = "openai_api_key" -> cli.set_openai_key
      [] f = "gemini_api_key" -> cli.set_gemini_key
      [] f = "mistral_api_key" -> cli.set_mistral_key
      [] f = "default_model" -> cli.set_default_model

\* what a later resolution of a field of cfg returns under environment e
Resolution(cfg, e, f) ==
    CASE f = "claude_api_key" -> get_claude_api_key(cfg, e)
      [] f = "openai_api_key" -> get_openai_api_key(cfg, e)
      [] f = "gemini_api_key" -> get_gemini_api_key(cfg, e)
      [] f = "mistral_api_key" -> get_mistral_api_key(cfg, e)
      [] f = "default_model" -> get_default_model(cfg)

\* a step in which a set operation ran
SetStep == pc = "flags" /\ exit'.at = "set"

\* the first field, in the order of main, whose flag is given
FirstFlag ==
    ConfigFields[CHOOSE i \in 1..5 :
        /\ FlagFor(ConfigFields[i]) # None
        /\ \A j \in 1..(i - 1) : FlagFor(ConfigFields[j]) = None]

\* C22: each set operation changes only its own field of the config and
\* leaves every other field unchanged; when it returns Ok the file holds the
\* whole config, and a later resolution of the field returns the new value.
C22_SetFrame ==
    [][SetStep =>
          \E f \in Range(ConfigFields) :
              /\ FlagFor(f) # None
              /\ config'[f] = FlagFor(f)
              /\ \A g \in Range(ConfigFields) \ {f} : config'[g] = config[g]
              /\ exit'.status = "ok" =>
                    /\ file' = Saved(config')
                    /\ from_toml(file'.table) = config'
                    /\ \A e \in FullEnvs : Resolution(config', e, f) = FlagFor(f)
              /\ exit'.status # "ok" => file' = file]_vars

C22_Witness ==
    /\ exit = ExitOk("set")
    /\ cli.set_claude_key = None
    /\ cli.set_openai_key = "new-openai-key"
    /\ config.openai_api_key = "new-openai-key"
    /\ config.claude_api_key = CfgKey("claude_api_key")
    /\ config.default_model = "GPT5"
    /\ file = Saved(config)

\* C23: Config::load with no config file returns the default config and
\* creates the file with the default values; with an existing file it writes
\* nothing; no other step of a run writes the file except a set operation.
C23_LoadCreates ==
    [][/\ pc = "load" /\ ~file.exists /\ pc' = "flags" =>
             /\ config' = DefaultConfig
             /\ file' = Saved(DefaultConfig)
             /\ log' = Append(log, Event("save", "config.toml"))
       /\ pc = "load" /\ file.exists => file' = file /\ log' = log
       /\ pc # "load" /\ exit'.at # "set" =>
             /\ file' = file
             /\ \A i \in DOMAIN log' : log'[i].op = "save" => i \in DOMAIN log]_vars

C23_Witness ==
    /\ pc = "flags"
    /\ config = DefaultConfig
    /\ file = Saved(DefaultConfig)
    /\ TomlGet(file.table, "default_model") = "Haiku4_5"
    /\ log = <<Event("save", "config.toml")>>

\* C27: when a run is given several of --set-claude-key, --set-openai-key,
\* --set-gemini-key, --set-mistral-key, --set-default-model, only the first
\* in that order is persisted: the file changes in that field alone, the run
\* ends, and the values of the other flags are not written.
C27_FirstFlagOnly ==
    [][SetStep /\ exit'.status = "ok" =>
          /\ pc' = "done"
          /\ TomlGet(file'.table, FirstFlag) = FlagFor(FirstFlag)
          /\ \A g \in Range(ConfigFields) \ {FirstFlag} :
                TomlGet(file'.table, g) = TomlGet(file.table, g)
          /\ Len(log') = Len(log) + 2]_vars

C27_Witness ==
    /\ exit = ExitOk("set")
    /\ cli.set_claude_key = None
    /\ cli.set_openai_key # None /\ cli.set_gemini_key # None
    /\ cli.set_mistral_key # None /\ cli.set_default_model # None
    /\ TomlGet(file.table, "openai_api_key") = cli.set_openai_key
    /\ TomlGet(file.table, "gemini_api_key") # cli.set_gemini_key
    /\ TomlGet(file.table, "mistral_api_key") # cli.set_mistral_key
    /\ TomlGet(file.table, "default_model") # cli.set_default_model

\* C28: the config is loaded before any flag is handled: with a malformed
\* config file every run fails at the load, also a run with --set-<vendor>-key,
\* --set-default-model or --list-models, and nothing is written.
C28_MalformedFails ==
    file.exists /\ ~file.valid =>
        /\ pc \in {"load", "done"}
        /\ pc = "done" => exit.status = "err" /\ exit.at = "load"
        /\ config = [f \in Range(ConfigFields) |-> None]
        /\ log = <<>>

C28_Witness ==
    /\ file = Malformed
    /\ cli.set_claude_key # None
    /\ cli.list_models
    /\ exit = ExitErr("load", "malformed config file")

\* C29: in a generating run the credential of the model is validated before
\* the staged files are read: when no credential resolves the run fails with
\* the credential error and no git command has run, whatever is staged.
C29_ValidateFirst ==
    /\ exit.at = "validate" =>
          /\ exit.status = "err"
          /\ Contains(exit.msg, "API key required for")
          /\ ~HasEvent("git")
          /\ staged_files = <<>> /\ diff = None
    /\ HasEvent("git") =>
          /\ env[VarOf(model)] # Unread
          /\ Resolves(model)
          /\ api_key # None
    /\ model # None /\ env[VarOf(model)] # Unread /\ ~Resolves(model) =>
          pc = "done" /\ exit.at = "validate"

C29_Witness ==
    /\ exit.at = "validate"
    /\ exit.status = "err"
    /\ model = "GPT5Nano"
    /\ config.openai_api_key = None /\ env["OPENAI_API_KEY"] = None
    /\ config.claude_api_key # None
    /\ log = <<>>

\* the endpoint of a vendor, up to the part of the URL that names the model
Endpoint(v) ==
    CASE v = "claude" -> "https://api.anthropic.com/v1/messages"
      [] v = "openai" -> "https://api.openai.com/v1/chat/completions"
      [] v = "gemini" -> "https://generativelanguage.googleapis.com/v1beta/models/"
      [] v = "mistral" -> "https://api.mistral.ai/v1/chat/completions"

\* the vendor a model of the catalog belongs to
VendorOf(m) ==
    IF is_claude(m) THEN "claude"
    ELSE IF is_openai(m) THEN "openai"
    ELSE IF is_gemini(m) THEN "gemini"
    ELSE "mistral"

\* the strings a JSON value holds
RECURSIVE JStrings(_)
JStrings(v) ==
    CASE v.t = "str" -> {v.s}
      [] v.t = "obj" -> UNION {JStrings(v.kv[i][2]) : i \in DOMAIN v.kv}
      [] v.t = "arr" -> UNION {JStrings(v.el[i]) : i \in DOMAIN v.el}
      [] OTHER -> {}

Sent == request # NoRequest

RECURSIVE Roles(_, _)
Roles(s, n) ==
    IF n = 0 THEN <<>>
    ELSE LET before == Roles(s, n - 1)
             ch == SubSeq(s, n, n)
             inside(q) ==
                 Cardinality({j \in 1..(n - 1) :
                     SubSeq(s, j, j) = q /\ before[j] = "quote"}) % 2 = 1
             role ==
                 IF n > 1 /\ before[n - 1] = "escape" THEN "literal"
                 ELSE IF ch = "'" /\ ~inside("\"") THEN "quote"
                 ELSE IF ch = "\"" /\ ~inside("'") THEN "quote"
                 ELSE IF ch = "\\" /\ ~inside("'") THEN "escape"
                 ELSE IF ch \in Whitespace /\ ~inside("'") /\ ~inside("\"")
                 THEN "separator"
                 ELSE "literal"
         IN Append(before, role)

\* the string ends inside a quote
EndsInQuote(s) ==
    Cardinality({j \in 1..Len(s) : Roles(s, Len(s))[j] = "quote"}) % 2 = 1

\* the literal characters of positions a..b of s
RECURSIVE Kept(_, _, _, _)
Kept(s, roles, a, b) ==
    IF a > b THEN ""
    ELSE (IF roles[a] = "literal" THEN SubSeq(s, a, a) ELSE "")
             \o Kept(s, roles, a + 1, b)

\* the parts the claim describes: the stretches between separators, each
\* reduced to its literal characters, the empty ones left out, in order
ExpectedParts(s) ==
    LET roles == Roles(s, Len(s))
        n == Len(s)
        stretches ==
            {r \in (1..n) \X (1..n) :
                /\ r[1] <= r[2]
                /\ \A j \in r[1]..r[2] : roles[j] # "separator"
                /\ r[1] = 1 \/ roles[r[1] - 1] = "separator"
                /\ r[2] = n \/ roles[r[2] + 1] = "separator"
                /\ Kept(s, roles, r[1], r[2]) # ""}
        nth(k) ==
            CHOOSE r \in stretches :
                Cardinality({q \in stretches : q[1] < r[1]}) = k - 1
    IN [k \in 1..Cardinality(stretches) |->
            Kept(s, roles, nth(k)[1], nth(k)[2])]

Parsed == pc = "parsed"

\* C30: parse_editor_command returns an error exactly when the string ends
\* inside a single or double quote or yields no part; otherwise it returns
\* the non-empty parts split at unquoted whitespace, the quoting characters
\* removed, a backslash outside single quotes replaced by the character that
\* follows it, and a trailing backslash dropped.
C30_ParseEditor ==
    Parsed =>
        LET s == ed.EDITOR
            r == ed.parsed
        IN /\ ~r.ok <=> (EndsInQuote(s) \/ ExpectedParts(s) = <<>>)
           /\ ~r.ok =>
                 r.err = IF EndsInQuote(s)
                         THEN "Unclosed quote in EDITOR environment variable"
                         ELSE "EDITOR environment variable is empty"
           /\ r.ok =>
                 /\ r.val = ExpectedParts(s)
                 /\ r.val # <<>>
                 /\ \A k \in DOMAIN r.val : r.val[k] # ""

C30_Witness ==
    /\ Parsed
    /\ ed.EDITOR = "' 'a"
    /\ ed.parsed = OkParts(<<" a">>)

\* C25: with --edit, the edit step fails when the editor exits with a
\* non-zero status or when the EDITOR command line is malformed (an unclosed
\* quote, or empty); in each case the run ends with an error at the edit step
\* and git commit is not invoked.
C25_EditFails ==
    /\ ed.status \in {"parse error", "launch failed", "non-zero"} =>
          /\ cli.edit
          /\ pc = "done" /\ exit.status = "err" /\ exit.at = "edit"
          /\ Commits = {}
    /\ ed.status = "non-zero" =>
          /\ exit.msg = "Editor exited with a non-zero status"
          /\ HasEvent("editor")
    /\ ed.EDITOR # Unread /\ ~ed.parsed.ok =>
          /\ ed.status = "parse error"
          /\ exit.msg = ed.parsed.err
          /\ ~HasEvent("editor")
    /\ ed.EDITOR = "'vi" =>
          exit.msg = "Unclosed quote in EDITOR environment variable"
    /\ ed.EDITOR = "" =>
          exit.msg = "EDITOR environment variable is empty"

C25_Witness ==
    /\ exit = ExitErr("edit", "Editor exited with a non-zero status")
    /\ ed.EDITOR = "code --wait"
    /\ ed.parsed = OkParts(<<"code", "--wait">>)
    /\ log[Len(log)] = Event("editor", "code --wait /tmp/.tmpCOMMIT")
    /\ commit_message # "fix(a): y"

BothDone == \A p \in Procs : race.proc[p].pc = "done"

\* C24: when two processes run set operations concurrently on the same
\* config file, the final file is the whole config written by the last
\* writer: the file holds the text the last write wrote, and that text is
\* the serialised config of that process.
C24_LastWriterWins ==
    BothDone =>
        /\ race.last.p \in Procs
        /\ race.last.content = to_string_pretty(race.proc[race.last.p].config)
        /\ race.disk.text = race.last.content

\* the change of the process that did not write last is lost
C24_LostUpdate ==
    /\ BothDone
    /\ race.disk.text = race.last.content
    /\ \E p \in Procs :
          /\ p # race.last.p
          /\ race.proc[p].flag[1] # race.proc[race.last.p].flag[1]
          /\ from_str_toml(race.disk.text).ok
          /\ from_str_toml(race.disk.text).val[race.proc[p].flag[1]]
                # race.proc[p].flag[2]

\* the file the two writes leave is the config of neither process
C24_Torn ==
    /\ BothDone
    /\ \A p \in Procs : race.disk.text # race.proc[p].content
    /\ ~from_str_toml(race.disk.text).ok

====
